---- MODULE Spec2Model ----
(***************************************************************************)
(* Receipt extraction engine of cajaclara                                  *)
(* (backend/app/services/ocr_service.py, class OCRService).                *)
(*                                                                         *)
(* Text is a sequence of one-character strings.  A Decimal is a record     *)
(* [u |-> whole units, c |-> hundredths]; the extractor never produces     *)
(* more than two fractional digits.  A confidence is an integer number of  *)
(* thousandths (0.8 is 800).  An Optional value is a sequence of at most   *)
(* one element: NoneV is None, Some(x) is the value x.                     *)
(***************************************************************************)
EXTENDS Integers, Sequences, FiniteSets, TLC

VARIABLES
    pc,      \* position of the call under way
    doc,     \* the input of the run: what is written on the receipt, or the
             \* response of the vision capability
    upload,  \* the file posted to an endpoint: [endpoint, content_type, sized]
    image,   \* the image bytes of the request: [size, decodable]
    args,    \* the other arguments: [transaction_type, classification]
    calls,   \* number of requests sent to the vision capability
    text,    \* the transcript: extracted_text, or the text handed to an extractor
    result,  \* what the call returned
    error,   \* the exception the call raised, NoError when none
    db,      \* the rows the database holds
    history  \* the calls of process_receipt_image that have returned

vars == <<pc, doc, upload, image, args, calls, text, result, error, db, history>>

(***************************************************************************)
(* Characters                                                              *)
(***************************************************************************)
Digits == {"0", "1", "2", "3", "4", "5", "6", "7", "8", "9"}

DigitSeq == <<"0", "1", "2", "3", "4", "5", "6", "7", "8", "9">>

DigitVal(ch) == CHOOSE d \in 0..9 : DigitSeq[d + 1] = ch

\* \s of the re module, restricted to the characters of the transcripts
Space == {" ", "\n", "\t", "\r"}

UpperSeq == <<"A", "B", "C", "D", "E", "F", "G", "H", "I", "J", "K", "L", "M",
              "N", "O", "P", "Q", "R", "S", "T", "U", "V", "W", "X", "Y", "Z",
              "Á", "É", "Í", "Ó", "Ú", "Ñ">>

LowerSeq == <<"a", "b", "c", "d", "e", "f", "g", "h", "i", "j", "k", "l", "m",
              "n", "o", "p", "q", "r", "s", "t", "u", "v", "w", "x", "y", "z",
              "á", "é", "í", "ó", "ú", "ñ">>

\* str.lower() on one character
LowerCh(ch) ==
    IF \E k \in 1..Len(UpperSeq) : UpperSeq[k] = ch
    THEN LowerSeq[CHOOSE k \in 1..Len(UpperSeq) : UpperSeq[k] = ch]
    ELSE ch

\* str.lower()
Lower(s) == [k \in 1..Len(s) |-> LowerCh(s[k])]

NoneV == <<>>

Some(x) == <<x>>

(***************************************************************************)
(* Regular-expression pieces shared by the amount patterns                 *)
(***************************************************************************)
RECURSIVE SkipWhile(_, _, _)
\* greedy X* from position i: the first position whose character is not in cls
SkipWhile(s, i, cls) ==
    IF i <= Len(s) /\ s[i] \in cls THEN SkipWhile(s, i + 1, cls) ELSE i

\* the group ([\d,]+\.?\d*) matched greedily at position j:
\* the position after the match, 0 when [\d,]+ matches nothing
NumeralEnd(s, j) ==
    LET a == SkipWhile(s, j, Digits \cup {","})
        b == IF a <= Len(s) /\ s[a] = "." THEN a + 1 ELSE a
    IN  IF a = j THEN 0 ELSE SkipWhile(s, b, Digits)

\* a literal word matched at position i under re.IGNORECASE
WordAt(s, i, word) ==
    /\ i + Len(word) - 1 <= Len(s)
    /\ Lower(SubSeq(s, i, i + Len(word) - 1)) = Lower(word)

NoMatch == [ok |-> FALSE, raw |-> <<>>, end |-> 0]

\* the numeral group at j, nothing required after it
GroupAt(s, j) ==
    LET e == NumeralEnd(s, j)
    IN  IF e = 0 THEN NoMatch ELSE [ok |-> TRUE, raw |-> SubSeq(s, j, e - 1), end |-> e]

\* r'\$\s*([\d,]+\.?\d*)'
MatchDollar(s, i) ==
    IF s[i] = "$" THEN GroupAt(s, SkipWhile(s, i + 1, Space)) ELSE NoMatch

\* r'([\d,]+\.?\d*)\s*$': the group, then only white space up to the end
MatchTrailing(s, i) ==
    LET g == GroupAt(s, i)
    IN  IF g.ok /\ SkipWhile(s, g.end, Space) = Len(s) + 1
        THEN [g EXCEPT !.end = Len(s) + 1]
        ELSE NoMatch

\* r'<label>[:\s]*\$?\s*([\d,]+\.?\d*)'
MatchLabel(s, i, label) ==
    IF WordAt(s, i, label)
    THEN LET a == SkipWhile(s, i + Len(label), Space \cup {":"})
             b == IF a <= Len(s) /\ s[a] = "$" THEN a + 1 ELSE a
         IN  GroupAt(s, SkipWhile(s, b, Space))
    ELSE NoMatch

W_Total == <<"T", "o", "t", "a", "l">>
W_VALOR == <<"V", "A", "L", "O", "R">>
W_Importe == <<"I", "m", "p", "o", "r", "t", "e">>

\* the five patterns of _extract_amount, in the order of the list
AmountPatterns == <<"dollar", "trailing", "total", "valor", "importe">>

AmountMatchAt(pat, s, i) ==
    CASE pat = "dollar"   -> MatchDollar(s, i)
      [] pat = "trailing" -> MatchTrailing(s, i)
      [] pat = "total"    -> MatchLabel(s, i, W_Total)
      [] pat = "valor"    -> MatchLabel(s, i, W_VALOR)
      [] pat = "importe"  -> MatchLabel(s, i, W_Importe)

RECURSIVE AmountFindAll(_, _, _)
\* re.findall(pattern, text, re.IGNORECASE): the groups of the leftmost
\* non-overlapping matches, scanning from position i
AmountFindAll(pat, s, i) ==
    IF i > Len(s) THEN <<>>
    ELSE LET m == AmountMatchAt(pat, s, i)
         IN  IF m.ok THEN <<m.raw>> \o AmountFindAll(pat, s, m.end)
             ELSE AmountFindAll(pat, s, i + 1)

(***************************************************************************)
(* Numeral normalisation and Decimal conversion                            *)
(***************************************************************************)
RECURSIVE StripLeft(_)
StripLeft(s) == IF s # <<>> /\ Head(s) \in Space THEN StripLeft(Tail(s)) ELSE s

RECURSIVE StripRight(_)
StripRight(s) ==
    IF s # <<>> /\ s[Len(s)] \in Space THEN StripRight(SubSeq(s, 1, Len(s) - 1)) ELSE s

\* str.strip()
Strip(s) == StripRight(StripLeft(s))

\* ch in s
Contains(s, ch) == \E k \in 1..Len(s) : s[k] = ch

\* s.replace(ch, '')
Remove(s, ch) == SelectSeq(s, LAMBDA x : x # ch)

\* s.replace(a, b) for single characters
Replace(s, a, b) == [k \in 1..Len(s) |-> IF s[k] = a THEN b ELSE s[k]]

\* re.match(r'.*<sep>\d{1,2}$', raw) on a string without line breaks
EndsSepDigits(raw, sep) ==
    LET n == Len(raw)
    IN  \/ n >= 2 /\ raw[n - 1] = sep /\ raw[n] \in Digits
        \/ n >= 3 /\ raw[n - 2] = sep /\ raw[n - 1] \in Digits /\ raw[n] \in Digits

\* NormalizeNumeral without its first branch: every separator is dropped
NormalizeNumeral_NoDecimalPoint(raw) ==
    IF Contains(raw, ",") /\ EndsSepDigits(raw, ",") /\ ~Contains(raw, ".")
    THEN Replace(Remove(raw, "."), ",", ".")
    ELSE Remove(Remove(raw, ","), ".")

\* the three branches that turn a matched numeral into amount_str
NormalizeNumeral(raw) ==
    IF Contains(raw, ".") /\ EndsSepDigits(raw, ".")
    THEN Remove(raw, ",")
    ELSE IF Contains(raw, ",") /\ EndsSepDigits(raw, ",") /\ ~Contains(raw, ".")
    THEN Replace(Remove(raw, "."), ",", ".")
    ELSE Remove(Remove(raw, ","), ".")

RECURSIVE ToNat(_)
\* the number written by a sequence of digits (0 for the empty sequence)
ToNat(ds) ==
    IF ds = <<>> THEN 0 ELSE 10 * ToNat(SubSeq(ds, 1, Len(ds) - 1)) + DigitVal(ds[Len(ds)])

Invalid == [invalid |-> TRUE]

\* Decimal(str) for a string of digits and '.': InvalidOperation unless the
\* string is digits, at most one '.', and at least one digit.  The callers
\* pass at most two fractional digits, kept as hundredths.
DecimalOf(str) ==
    LET dots == {k \in 1..Len(str) : str[k] = "."}
        p    == IF dots = {} THEN Len(str) + 1 ELSE CHOOSE k \in dots : TRUE
        ip   == SubSeq(str, 1, p - 1)
        fp   == SubSeq(str, p + 1, Len(str))
    IN  IF \/ Cardinality(dots) > 1
           \/ \E k \in 1..Len(str) : str[k] \notin Digits \cup {"."}
           \/ Len(ip) + Len(fp) = 0
           \/ Len(fp) > 2
        THEN Invalid
        ELSE [u |-> ToNat(ip),
              c |-> IF Len(fp) = 1 THEN 10 * ToNat(fp) ELSE ToNat(fp)]

\* a <= b on Decimals
DecLeq(a, b) == a.u < b.u \/ (a.u = b.u /\ a.c <= b.c)

\* a > b on Decimals
DecGt(a, b) == ~DecLeq(a, b)

Dec(n) == [u |-> n, c |-> 0]

\* AmountInRange with the bounds excluded
AmountInRange_Exclusive(amount) ==
    ~DecLeq(amount, Dec(100)) /\ ~DecLeq(Dec(10000000), amount)

\* 100 <= amount <= 10000000
AmountInRange(amount) == DecLeq(Dec(100), amount) /\ DecLeq(amount, Dec(10000000))

\* 0.8 if "total" in pattern.lower() else 0.6
AmountPatternConfidence(pat) == IF pat = "total" THEN 800 ELSE 600

\* a field that was not found, held with confidence 0.6
NoField_Unsure == [value |-> NoneV, conf |-> 600]

NoField == [value |-> NoneV, conf |-> 0]

\* the body of the inner loop of _extract_amount for one match
AmountStep(best, raw0, pat) ==
    LET raw    == Strip(raw0)
        amount == DecimalOf(NormalizeNumeral(raw))
    IN  IF amount = Invalid THEN best
        ELSE IF AmountInRange(amount)
                /\ (best.value = NoneV \/ DecGt(amount, best.value[1]))
        THEN [value |-> Some(amount), conf |-> AmountPatternConfidence(pat)]
        ELSE best

RECURSIVE AmountFold(_, _, _)
AmountFold(best, raws, pat) ==
    IF raws = <<>> THEN best
    ELSE AmountFold(AmountStep(best, Head(raws), pat), Tail(raws), pat)

RECURSIVE AmountLoop(_, _, _)
\* the outer loop over the patterns, from pattern number k on
AmountLoop(best, s, k) ==
    IF k > Len(AmountPatterns) THEN best
    ELSE AmountLoop(AmountFold(best, AmountFindAll(AmountPatterns[k], s, 1), AmountPatterns[k]),
                    s, k + 1)

\* OCRService._extract_amount
ExtractAmount(s) == AmountLoop(NoField, s, 1)

(***************************************************************************)
(* What is written on the receipt: the amount lines                        *)
(***************************************************************************)
EmptyT == <<>>

RECURSIVE FmtNat(_)
\* the decimal digits of n
FmtNat(n) == IF n < 10 THEN <<DigitSeq[n + 1]>> ELSE FmtNat(n \div 10) \o <<DigitSeq[(n % 10) + 1]>>

RECURSIVE ZeroPad(_, _)
\* ds padded on the left with zeros to width w
ZeroPad(ds, w) == IF Len(ds) >= w THEN ds ELSE ZeroPad(<<"0">> \o ds, w)

RECURSIVE FmtGrouped(_, _)
\* n written in groups of three digits separated by sep
FmtGrouped(n, sep) ==
    IF n < 1000 THEN FmtNat(n)
    ELSE FmtGrouped(n \div 1000, sep) \o <<sep>> \o ZeroPad(FmtNat(n % 1000), 3)

\* the numeral of a line: whole part in the line's style, then the fraction
\* (fw digits, value fv) after the decimal separator dsep
NumeralOf(l) ==
    (CASE l.style = "plain" -> FmtNat(l.n)
       [] l.style = "comma" -> FmtGrouped(l.n, ",")
       [] l.style = "dot"   -> FmtGrouped(l.n, "."))
    \o (IF l.fw = 0 THEN <<>> ELSE <<l.dsep>> \o ZeroPad(FmtNat(l.fv), l.fw))

LineText(l) == l.pre \o NumeralOf(l) \o l.suf

RECURSIVE JoinLines(_)
\* '\n'.join(lines)
JoinLines(ls) ==
    IF Len(ls) = 0 THEN <<>>
    ELSE IF Len(ls) = 1 THEN ls[1]
    ELSE ls[1] \o <<"\n">> \o JoinLines(Tail(ls))

AmountDocText(d) == JoinLines([k \in 1..Len(d) |-> LineText(d[k])])

P_Dollar == <<"$">>
P_Total == <<"T", "o", "t", "a", "l", ":", " ">>
P_TOTALD == <<"T", "O", "T", "A", "L", ":", " ", "$">>
P_Valor == <<"V", "A", "L", "O", "R", " ", "$">>
P_Importe == <<"I", "m", "p", "o", "r", "t", "e", " ">>
S_Pesos == <<" ", "p", "e", "s", "o", "s">>

\* the prefixes that are a Total-style label ("Total", "Valor", "Importe")
LabelPrefixes == {P_Total, P_TOTALD, P_Valor, P_Importe}

AmountNs == {99, 100, 999, 1000, 38393, 45000, 999999, 1000000, 1234567,
             9999999, 10000000, 10000001}

Fractions == {<<0, 0>>, <<2, 0>>, <<1, 5>>, <<2, 45>>, <<2, 1>>}

SingleLines ==
    {[pre |-> p, n |-> n, style |-> st, fw |-> f[1], fv |-> f[2], dsep |-> ds, suf |-> sf] :
        p \in {EmptyT, P_Dollar, P_Total, P_TOTALD, P_Valor, P_Importe},
        n \in AmountNs, st \in {"plain", "comma", "dot"},
        f \in Fractions, ds \in {".", ","}, sf \in {EmptyT, S_Pesos}}

Whole(p, n, st, sf) ==
    [pre |-> p, n |-> n, style |-> st, fw |-> 0, fv |-> 0, dsep |-> ".", suf |-> sf]

\* the lines that receipts with several amounts are made of
CandLines ==
    { Whole(P_Total, 500, "plain", S_Pesos),
      Whole(P_Dollar, 900, "plain", EmptyT),
      Whole(P_TOTALD, 45000, "dot", EmptyT),
      Whole(P_Valor, 40000, "dot", S_Pesos),
      Whole(P_Dollar, 99, "plain", EmptyT),
      Whole(P_Total, 10000001, "comma", S_Pesos),
      Whole(EmptyT, 7600, "comma", EmptyT) }

MaxCands == 2

AmountDocs ==
    {<<l>> : l \in {x \in SingleLines : x.fw = 0 => x.dsep = "."}}
    \cup UNION {[1..k -> CandLines] : k \in 2..MaxCands}

(***************************************************************************)
(* Specification of the amount extractor: ExtractAmount applied to every   *)
(* transcript of AmountDocs                                                *)
(***************************************************************************)
NoImage == [size |-> 0, decodable |-> FALSE]

\* a call that did not come through an endpoint
NoUpload == [endpoint |-> "", content_type |-> NoneV, sized |-> FALSE]

\* the defaults of process_receipt_image
DefaultArgs == [transaction_type |-> "expense", classification |-> "personal"]

NoError == [code |-> "", wraps |-> <<>>]

\* a run that keeps nothing in the database
NoRows == <<>>

InitAmount ==
    /\ doc \in AmountDocs
    /\ text = AmountDocText(doc)
    /\ pc = "call"
    /\ image = NoImage
    /\ upload = NoUpload
    /\ args = DefaultArgs
    /\ calls = 0
    /\ result = NoField
    /\ error = NoError
    /\ db = NoRows
    /\ history = <<>>

CallExtractAmount ==
    /\ pc = "call"
    /\ result' = ExtractAmount(text)
    /\ pc' = "ret"
    /\ UNCHANGED <<doc, upload, image, args, calls, text, error, db, history>>

NextAmount == CallExtractAmount

SpecAmount == InitAmount /\ [][NextAmount]_vars

(***************************************************************************)
(* Claims about the amount extractor (checked under SpecAmount)            *)
(***************************************************************************)
\* number of three-digit groups the whole part of a line is written in
GroupsOf(l) == IF l.n < 1000 THEN 1 ELSE IF l.n < 1000000 THEN 2 ELSE 3

\* dots written in the whole part of the line's numeral
WholeDots(l) == IF l.style = "dot" THEN GroupsOf(l) - 1 ELSE 0

\* the line's numeral is one numeral of the patterns ([\d,]+\.?\d*): it has
\* at most one '.', and nothing but digits after it
SingleNumeral(l) == WholeDots(l) = 0 \/ (WholeDots(l) = 1 /\ l.fw = 0)

\* line k of the receipt d is found by a pattern: it starts with '$' or a
\* label, or its numeral ends the transcript
MatchedLine(d, k) == d[k].pre # EmptyT \/ (k = Len(d) /\ d[k].suf = EmptyT)

\* the value a numeral stands for by the three rules of the specification:
\* '.' + 1-2 digits is a decimal part (rule 1); else ',' + 1-2 digits with
\* no '.' is a decimal part, where a second ',' leaves no number (rule 2);
\* else the digits are a whole amount (rule 3)
NumeralValue(l) ==
    IF l.fw = 0 THEN [u |-> l.n, c |-> 0]
    ELSE IF l.dsep = "," /\ l.style = "comma" /\ l.n >= 1000 THEN Invalid
    ELSE [u |-> l.n, c |-> IF l.fw = 1 THEN 10 * l.fv ELSE l.fv]

\* 100 <= v <= 10,000,000
Plausible(v) ==
    v # Invalid /\ v.u >= 100 /\ (v.u < 10000000 \/ (v.u = 10000000 /\ v.c = 0))

\* the candidates of receipt d: its matched lines with a plausible value
CandidatesOf(d) == {k \in 1..Len(d) : MatchedLine(d, k) /\ Plausible(NumeralValue(d[k]))}

\* the largest value among the lines ks of d
MaxValueOf(d, ks) ==
    NumeralValue(d[CHOOSE k \in ks : \A j \in ks : DecLeq(NumeralValue(d[j]), NumeralValue(d[k]))])

\* C3: among several in-range candidates the extractor returns the largest
\* labeled one with confidence 0.8, also when a larger unlabeled numeral is
\* present, and the largest unlabeled one with 0.6 only when none is labeled.
C3_LabeledTotalPreferred ==
    (pc = "ret" /\ \A k \in 1..Len(doc) : SingleNumeral(doc[k])) =>
        LET cands   == CandidatesOf(doc)
            labeled == {k \in cands : doc[k].pre \in LabelPrefixes}
        IN  Cardinality(cands) >= 2 =>
                IF labeled # {}
                THEN result = [value |-> Some(MaxValueOf(doc, labeled)), conf |-> 800]
                ELSE result = [value |-> Some(MaxValueOf(doc, cands)), conf |-> 600]

\* C4: a whole amount N in [100, 10,000,000] written as "$" with '.' as
\* thousands separator, with ',' as thousands separator, or with no
\* separator yields N with confidence >= 0.6.
C4_ThousandsSeparatorEquivalence ==
    (/\ pc = "ret"
     /\ Len(doc) = 1
     /\ doc[1].fw = 0
     /\ doc[1].suf = EmptyT
     /\ doc[1].n >= 100 /\ doc[1].n <= 10000000
     /\ \/ doc[1].pre = P_Dollar /\ doc[1].style = "dot"
        \/ doc[1].pre = EmptyT /\ doc[1].style \in {"comma", "plain"}) =>
        result.value = Some([u |-> doc[1].n, c |-> 0]) /\ result.conf >= 600

\* C5: a matched numeral is normalised by the three rules in order:
\* "38,393.00" gives 38393.00 (rule 1), "123,45" gives 123.45 (rule 2),
\* "45.000" and "45,000" give 45000 (rule 3).
C5_NormalisationRules ==
    (pc = "ret" /\ Len(doc) = 1 /\ SingleNumeral(doc[1]) /\ MatchedLine(doc, 1)) =>
        result.value = IF Plausible(NumeralValue(doc[1])) THEN Some(NumeralValue(doc[1])) ELSE NoneV

C5_Witness ==
    /\ pc = "ret"
    /\ text = <<"$", "3", "8", ",", "3", "9", "3", ".", "0", "0">>
    /\ result.value = Some([u |-> 38393, c |-> 0])

RECURSIVE DigitRun(_, _, _)
\* number of digits from position i on, counted up to cap
DigitRun(s, i, cap) ==
    IF cap = 0 \/ i > Len(s) \/ s[i] \notin Digits THEN 0
    ELSE 1 + DigitRun(s, i + 1, cap - 1)

\* [/\-]
DateSeps == {"/", "-"}

NoGroup == [ok |-> FALSE, val |-> <<>>, next |-> 0]

\* (\d{1,2})[/\-] at position i: one or two digits, all the digits there
\* are, then a separator; next is the position after the separator
DayMonthGroup(s, i) ==
    LET k == DigitRun(s, i, 3)
    IN  IF k \in {1, 2} /\ i + k <= Len(s) /\ s[i + k] \in DateSeps
        THEN [ok |-> TRUE, val |-> SubSeq(s, i, i + k - 1), next |-> i + k + 1]
        ELSE NoGroup

NoDate == [ok |-> FALSE, groups |-> <<>>, end |-> 0]

\* r'(\d{1,2})[/\-](\d{1,2})[/\-](\d{2,4})'
MatchDMY(s, i) ==
    LET g1 == DayMonthGroup(s, i)
        g2 == DayMonthGroup(s, g1.next)
        k3 == DigitRun(s, g2.next, 4)
    IN  IF g1.ok /\ g2.ok /\ k3 >= 2
        THEN [ok |-> TRUE,
              groups |-> <<g1.val, g2.val, SubSeq(s, g2.next, g2.next + k3 - 1)>>,
              end |-> g2.next + k3]
        ELSE NoDate

\* r'(\d{4})[/\-](\d{1,2})[/\-](\d{1,2})'
MatchYMD(s, i) ==
    LET g2 == DayMonthGroup(s, i + 5)
        k3 == DigitRun(s, g2.next, 2)
    IN  IF /\ DigitRun(s, i, 4) = 4
           /\ i + 4 <= Len(s) /\ s[i + 4] \in DateSeps
           /\ g2.ok /\ k3 >= 1
        THEN [ok |-> TRUE,
              groups |-> <<SubSeq(s, i, i + 3), g2.val, SubSeq(s, g2.next, g2.next + k3 - 1)>>,
              end |-> g2.next + k3]
        ELSE NoDate

W_Fecha == <<"F", "e", "c", "h", "a">>

\* r'Fecha[:\s]*(\d{1,2})[/\-](\d{1,2})[/\-](\d{2,4})'
MatchFecha(s, i) ==
    IF WordAt(s, i, W_Fecha)
    THEN MatchDMY(s, SkipWhile(s, i + Len(W_Fecha), Space \cup {":"}))
    ELSE NoDate

\* the three patterns of _extract_date, in the order of the list
DatePatterns == <<"dmy", "ymd", "fecha">>

DateMatchAt(pat, s, i) ==
    CASE pat = "dmy"   -> MatchDMY(s, i)
      [] pat = "ymd"   -> MatchYMD(s, i)
      [] pat = "fecha" -> MatchFecha(s, i)

RECURSIVE DateFindAll(_, _, _)
\* re.findall(pattern, text, re.IGNORECASE): the group tuples of the leftmost
\* non-overlapping matches, scanning from position i
DateFindAll(pat, s, i) ==
    IF i > Len(s) THEN <<>>
    ELSE LET m == DateMatchAt(pat, s, i)
         IN  IF m.ok THEN <<m.groups>> \o DateFindAll(pat, s, m.end)
             ELSE DateFindAll(pat, s, i + 1)

\* 0.8 if "fecha" in pattern.lower() else 0.6
DatePatternConfidence(pat) == IF pat = "fecha" THEN 800 ELSE 600

\* 1 <= int(day) <= 31 and 1 <= int(month) <= 12
DayMonthValid(day, month) ==
    /\ 1 <= ToNat(day) /\ ToNat(day) <= 31
    /\ 1 <= ToNat(month) /\ ToNat(month) <= 12

\* DateStep that keeps the first valid match whatever its confidence
DateStep_KeepFirst(best, match, pat) ==
    LET day   == match[1]
        month == match[2]
        year  == IF Len(match[3]) = 2 THEN <<"2", "0">> \o match[3] ELSE match[3]
    IN  IF DayMonthValid(day, month) /\ best.value = NoneV
        THEN [value |-> Some(year \o <<"-">> \o ZeroPad(month, 2) \o <<"-">> \o ZeroPad(day, 2)),
              conf |-> DatePatternConfidence(pat)]
        ELSE best

\* the body of the inner loop of _extract_date for one match: the three
\* groups are unpacked as day, month, year whatever the pattern
DateStep(best, match, pat) ==
    LET day   == match[1]
        month == match[2]
        year  == IF Len(match[3]) = 2 THEN <<"2", "0">> \o match[3] ELSE match[3]
        conf  == DatePatternConfidence(pat)
    IN  IF DayMonthValid(day, month) /\ (best.value = NoneV \/ conf > best.conf)
        THEN [value |-> Some(year \o <<"-">> \o ZeroPad(month, 2) \o <<"-">> \o ZeroPad(day, 2)),
              conf |-> conf]
        ELSE best

RECURSIVE DateFold(_, _, _)
DateFold(best, matches, pat) ==
    IF matches = <<>> THEN best
    ELSE DateFold(DateStep(best, Head(matches), pat), Tail(matches), pat)

RECURSIVE DateLoop(_, _, _)
\* the outer loop over the patterns, from pattern number k on
DateLoop(best, s, k) ==
    IF k > Len(DatePatterns) THEN best
    ELSE DateLoop(DateFold(best, DateFindAll(DatePatterns[k], s, 1), DatePatterns[k]),
                  s, k + 1)

\* OCRService._extract_date
ExtractDate(s) == DateLoop(NoField, s, 1)

(***************************************************************************)
(* What is written on the receipt: one date                                *)
(***************************************************************************)
P_Fecha == <<"F", "e", "c", "h", "a", ":", " ">>
P_FECHA2 == <<"F", "E", "C", "H", "A", " ">>

\* day or month written with two digits (pad) or as few as it takes
FmtDayMonth(n, pad) == IF pad THEN ZeroPad(FmtNat(n), 2) ELSE FmtNat(n)

\* the year written with yw digits (4, or the last 2)
FmtYear(y, yw) == IF yw = 2 THEN ZeroPad(FmtNat(y % 100), 2) ELSE ZeroPad(FmtNat(y), 4)

DateText(d) ==
    d.pre \o
    (IF d.order = "DMY"
     THEN FmtDayMonth(d.d, d.pad) \o <<d.sep>> \o FmtDayMonth(d.m, d.pad) \o <<d.sep>>
          \o FmtYear(d.y, d.yw)
     ELSE FmtYear(d.y, 4) \o <<d.sep>> \o FmtDayMonth(d.m, d.pad) \o <<d.sep>>
          \o FmtDayMonth(d.d, d.pad))
    \o d.suf

S_TotalLine == <<"\n", "T", "O", "T", "A", "L", ":", " ", "$", "4", "5", ".", "0", "0", "0">>

DateDocs ==
    {[pre |-> p, order |-> o, d |-> d, m |-> m, y |-> y, yw |-> yw, pad |-> pad,
      sep |-> sep, suf |-> sf] :
        p \in {EmptyT, P_Fecha, P_FECHA2}, o \in {"DMY", "YMD"},
        d \in {0, 1, 9, 27, 31, 32, 45}, m \in {0, 1, 2, 10, 12, 13},
        y \in {1999, 2000, 2025}, yw \in {2, 4}, pad \in BOOLEAN,
        sep \in DateSeps, sf \in {EmptyT, S_TotalLine}}

InitDate ==
    /\ doc \in {x \in DateDocs : x.order = "YMD" => x.yw = 4}
    /\ text = DateText(doc)
    /\ pc = "call"
    /\ image = NoImage
    /\ upload = NoUpload
    /\ args = DefaultArgs
    /\ calls = 0
    /\ result = NoField
    /\ error = NoError
    /\ db = NoRows
    /\ history = <<>>

CallExtractDate ==
    /\ pc = "call"
    /\ result' = ExtractDate(text)
    /\ pc' = "ret"
    /\ UNCHANGED <<doc, upload, image, args, calls, text, error, db, history>>

NextDate == CallExtractDate

SpecDate == InitDate /\ [][NextDate]_vars

(***************************************************************************)
(* Claims about the date extractor (checked under SpecDate)                *)
(***************************************************************************)
\* the number of days of a month
DaysInMonth(year, month) ==
    CASE month \in {4, 6, 9, 11} -> 30
      [] month = 2 -> IF year % 4 = 0 /\ (year % 100 # 0 \/ year % 400 = 0) THEN 29 ELSE 28
      [] OTHER -> 31

\* s is YYYY-MM-DD and names a day of the calendar: what
\* datetime.fromisoformat and the datetime field of the request accept of
\* the strings the extractors and the payloads carry
IsIsoDate(s) ==
    /\ Len(s) = 10
    /\ \A k \in {1, 2, 3, 4, 6, 7, 9, 10} : s[k] \in Digits
    /\ s[5] = "-" /\ s[8] = "-"
    /\ LET year  == ToNat(SubSeq(s, 1, 4))
           month == ToNat(SubSeq(s, 6, 7))
           day   == ToNat(SubSeq(s, 9, 10))
       IN  /\ year >= 1
           /\ month \in 1..12
           /\ day \in 1..DaysInMonth(year, month)

\* the ISO string YYYY-MM-DD of a calendar date
Iso(y, m, d) ==
    ZeroPad(FmtNat(y), 4) \o <<"-">> \o ZeroPad(FmtNat(m), 2) \o <<"-">> \o ZeroPad(FmtNat(d), 2)

\* the year a receipt date stands for: a two-digit year YY is 20YY
FullYear(d) == IF d.yw = 2 THEN 2000 + (d.y % 100) ELSE d.y

DayMonthInRange(d) == d.d \in 1..31 /\ d.m \in 1..12

\* C7: a valid D/M/Y date gives the same ISO string bare and after "Fecha",
\* with confidence 0.6 bare and 0.8 labeled.
C7_DateBareAndLabeled ==
    (pc = "ret" /\ doc.order = "DMY" /\ DayMonthInRange(doc)) =>
        result = [value |-> Some(Iso(FullYear(doc), doc.m, doc.d)),
                  conf  |-> IF doc.pre = EmptyT THEN 600 ELSE 800]

C7_Witness ==
    /\ pc = "ret"
    /\ text = P_Fecha \o <<"2", "7", "/", "1", "0", "/", "2", "0", "2", "5">>
    /\ result = [value |-> Some(<<"2", "0", "2", "5", "-", "1", "0", "-", "2", "7">>), conf |-> 800]

\* C8: a date written Y-M-D with a four-digit year is returned as that same
\* calendar date in ISO form.
C8_YearMonthDayRecognised ==
    (pc = "ret" /\ doc.order = "YMD" /\ DayMonthInRange(doc)) =>
        result.value = Some(Iso(doc.y, doc.m, doc.d))

\* C9: a date whose day is outside 1..31 or whose month is outside 1..12,
\* the only date-like text of the transcript, yields (None, 0.0).
C9_OutOfRangeDateRejected ==
    (pc = "ret" /\ ~DayMonthInRange(doc)) => result = NoField

\* C28: every non-None date the extractor returns is an ISO calendar date
\* string: four year digits, two month digits in 01..12 and two day digits
\* that are a valid day of that month, separated by '-'; a two-digit year YY
\* is returned as 20YY.
C28_IsoCalendarDate ==
    (pc = "ret" /\ result.value # NoneV) =>
        /\ IsIsoDate(result.value[1])
        /\ (doc.order = "DMY" /\ doc.yw = 2) =>
               SubSeq(result.value[1], 1, 2) = <<"2", "0">>

(***************************************************************************)
(* The vendor extractor                                                    *)
(***************************************************************************)
RECURSIVE SplitLines(_)
\* text.split('\n')
SplitLines(s) ==
    LET nl == {k \in 1..Len(s) : s[k] = "\n"}
    IN  IF nl = {} THEN <<s>>
        ELSE LET k == CHOOSE x \in nl : \A y \in nl : x <= y
             IN  <<SubSeq(s, 1, k - 1)>> \o SplitLines(SubSeq(s, k + 1, Len(s)))

\* lines[:6]
FirstLines_Six(lines) == SubSeq(lines, 1, IF Len(lines) < 6 THEN Len(lines) ELSE 6)

\* lines[:5]
FirstLines(lines) == SubSeq(lines, 1, IF Len(lines) < 5 THEN Len(lines) ELSE 5)

\* the test a stripped line has to pass to be the vendor
VendorLineOk(line) ==
    /\ Len(line) > 3 /\ Len(line) < 50
    /\ ~(\E k \in 1..Len(line) : line[k] \in Digits)
    /\ ~Contains(line, "$")

RECURSIVE VendorLoop(_)
\* the loop over the lines: the first stripped line that passes
VendorLoop(lines) ==
    IF lines = <<>> THEN NoField
    ELSE LET line == Strip(Head(lines))
         IN  IF VendorLineOk(line) THEN [value |-> Some(line), conf |-> 700]
             ELSE VendorLoop(Tail(lines))

\* OCRService._extract_vendor
ExtractVendor(s) == VendorLoop(FirstLines(SplitLines(s)))

(***************************************************************************)
(* What is written on the receipt: the top lines                           *)
(***************************************************************************)
RECURSIVE Repeat(_, _)
\* n copies of the character ch
Repeat(ch, n) == IF n <= 0 THEN <<>> ELSE <<ch>> \o Repeat(ch, n - 1)

\* line number k of a receipt, of kind l: len characters between pad
\* blanks on each side, all the letter number k except for one digit or
\* one '$' when the kind has one
TopLineBody(l, k) ==
    IF l.len = 0 THEN <<>>
    ELSE CASE l.extra = "none"   -> Repeat(UpperSeq[k], l.len)
           [] l.extra = "digit"  -> Repeat(UpperSeq[k], l.len - 1) \o <<"7">>
           [] l.extra = "dollar" -> <<"$">> \o Repeat(UpperSeq[k], l.len - 1)

TopLineText(l, k) == Repeat(" ", l.pad) \o TopLineBody(l, k) \o Repeat(" ", l.pad)

VendorDocText(d) == JoinLines([k \in 1..Len(d) |-> TopLineText(d[k], k)])

TopLine(len, pad, extra) == [len |-> len, pad |-> pad, extra |-> extra]

\* the two kinds every receipt is made of: a short name, and a line with a digit
BaseLines == {TopLine(6, 0, "none"), TopLine(9, 0, "digit")}

\* the kinds at the limits of the test: lengths 3, 4, 49 and 50, blanks
\* around the text, an empty line, a '$'
EdgeLines ==
    {TopLine(3, 0, "none"), TopLine(4, 0, "none"), TopLine(49, 0, "none"),
     TopLine(50, 0, "none"), TopLine(3, 2, "none"), TopLine(49, 2, "none"),
     TopLine(0, 0, "none"), TopLine(0, 3, "none"), TopLine(8, 0, "dollar")}

MaxLines == 6

\* receipts of up to MaxLines lines of the base kinds, one of which may be
\* replaced by a line of an edge kind
VendorDocs ==
    LET base == UNION {[1..n -> BaseLines] : n \in 1..MaxLines}
    IN  base \cup UNION {{[b EXCEPT ![k] = e] : k \in DOMAIN b, e \in EdgeLines} : b \in base}

InitVendor ==
    /\ doc \in VendorDocs
    /\ text = VendorDocText(doc)
    /\ pc = "call"
    /\ image = NoImage
    /\ upload = NoUpload
    /\ args = DefaultArgs
    /\ calls = 0
    /\ result = NoField
    /\ error = NoError
    /\ db = NoRows
    /\ history = <<>>

CallExtractVendor ==
    /\ pc = "call"
    /\ result' = ExtractVendor(text)
    /\ pc' = "ret"
    /\ UNCHANGED <<doc, upload, image, args, calls, text, error, db, history>>

NextVendor == CallExtractVendor

SpecVendor == InitVendor /\ [][NextVendor]_vars

JNull == [t |-> "null", v |-> 0]

JBool(b) == [t |-> "bool", v |-> b]

JNum(neg, u, f) == [t |-> "num", v |-> [neg |-> neg, u |-> u, f |-> f]]

JInt(n) == JNum(FALSE, n, <<>>)

JStr(chars) == [t |-> "str", v |-> chars]

JArr(items) == [t |-> "arr", v |-> items]

JObj(members) == [t |-> "obj", v |-> members]

Member(k, v) == [k |-> k, v |-> v]

\* the white space json skips
JsonWs == {" ", "\t", "\n", "\r"}

ParseFail == [ok |-> FALSE, val |-> JNull, next |-> 0]

Parsed(val, next) == [ok |-> TRUE, val |-> val, next |-> next]

\* a literal word (null, true, false) at position i
LiteralAt(s, i, word) == i + Len(word) - 1 <= Len(s) /\ SubSeq(s, i, i + Len(word) - 1) = word

\* the character an escape sequence \ch stands for
Unescape(ch) ==
    CASE ch = "n" -> "\n"
      [] ch = "t" -> "\t"
      [] ch = "r" -> "\r"
      [] OTHER    -> ch

RECURSIVE ScanString(_, _, _)
\* the characters of a string from position i up to its closing quote
ScanString(s, i, acc) ==
    IF i > Len(s) THEN ParseFail
    ELSE IF s[i] = "\"" THEN Parsed(JStr(acc), i + 1)
    ELSE IF s[i] = "\\"
    THEN IF i + 1 <= Len(s) /\ s[i + 1] \in {"n", "t", "r", "\"", "\\", "/"}
         THEN ScanString(s, i + 2, Append(acc, Unescape(s[i + 1])))
         ELSE ParseFail
    ELSE IF s[i] \in {"\n", "\t", "\r"} THEN ParseFail
    ELSE ScanString(s, i + 1, Append(acc, s[i]))

\* a string from its opening quote at position i
ParseString(s, i) ==
    IF i <= Len(s) /\ s[i] = "\"" THEN ScanString(s, i + 1, <<>>) ELSE ParseFail

\* a number at position i: -?(0|[1-9]\d*)(\.\d+)?
ParseNumber(s, i) ==
    LET neg == i <= Len(s) /\ s[i] = "-"
        a   == IF neg THEN i + 1 ELSE i
        b   == IF a <= Len(s) /\ s[a] = "0" THEN a + 1 ELSE SkipWhile(s, a, Digits)
        c   == IF b + 1 <= Len(s) /\ s[b] = "." /\ s[b + 1] \in Digits
               THEN SkipWhile(s, b + 1, Digits) ELSE b
    IN  IF b = a THEN ParseFail
        ELSE IF c <= Len(s) /\ s[c] \in {"e", "E"} THEN ParseFail
        ELSE Parsed(JNum(neg, ToNat(SubSeq(s, a, b - 1)),
                         IF c = b THEN <<>> ELSE SubSeq(s, b + 1, c - 1)), c)

RECURSIVE ParseValue(_, _), ParseElements(_, _, _), ParseMembers(_, _, _)

\* a value at position i (white space before it already skipped)
ParseValue(s, i) ==
    IF i > Len(s) THEN ParseFail
    ELSE CASE s[i] = "{" ->
                LET j == SkipWhile(s, i + 1, JsonWs)
                IN  IF j <= Len(s) /\ s[j] = "}" THEN Parsed(JObj(<<>>), j + 1)
                    ELSE ParseMembers(s, j, <<>>)
           [] s[i] = "[" ->
                LET j == SkipWhile(s, i + 1, JsonWs)
                IN  IF j <= Len(s) /\ s[j] = "]" THEN Parsed(JArr(<<>>), j + 1)
                    ELSE ParseElements(s, j, <<>>)
           [] s[i] = "\"" -> ParseString(s, i)
           [] s[i] = "n" -> IF LiteralAt(s, i, <<"n", "u", "l", "l">>)
                            THEN Parsed(JNull, i + 4) ELSE ParseFail
           [] s[i] = "t" -> IF LiteralAt(s, i, <<"t", "r", "u", "e">>)
                            THEN Parsed(JBool(TRUE), i + 4) ELSE ParseFail
           [] s[i] = "f" -> IF LiteralAt(s, i, <<"f", "a", "l", "s", "e">>)
                            THEN Parsed(JBool(FALSE), i + 5) ELSE ParseFail
           [] OTHER -> ParseNumber(s, i)

\* the elements of an array from position i on, acc the ones already read
ParseElements(s, i, acc) ==
    LET e == ParseValue(s, i)
        j == SkipWhile(s, e.next, JsonWs)
    IN  IF ~e.ok \/ j > Len(s) THEN ParseFail
        ELSE IF s[j] = "]" THEN Parsed(JArr(Append(acc, e.val)), j + 1)
        ELSE IF s[j] = "," THEN ParseElements(s, SkipWhile(s, j + 1, JsonWs), Append(acc, e.val))
        ELSE ParseFail

\* the members of an object from position i on, acc the ones already read
ParseMembers(s, i, acc) ==
    LET k == ParseString(s, i)
        c == SkipWhile(s, k.next, JsonWs)
        e == ParseValue(s, SkipWhile(s, c + 1, JsonWs))
        j == SkipWhile(s, e.next, JsonWs)
    IN  IF ~k.ok \/ c > Len(s) \/ s[c] # ":" THEN ParseFail
        ELSE IF ~e.ok \/ j > Len(s) THEN ParseFail
        ELSE IF s[j] = "}" THEN Parsed(JObj(Append(acc, Member(k.val.v, e.val))), j + 1)
        ELSE IF s[j] = ","
        THEN ParseMembers(s, SkipWhile(s, j + 1, JsonWs), Append(acc, Member(k.val.v, e.val)))
        ELSE ParseFail

\* json.loads(text): one value between optional white space, nothing after
\* it; ok is FALSE where json.loads raises JSONDecodeError
JsonLoads(s) ==
    LET r == ParseValue(s, SkipWhile(s, 1, JsonWs))
    IN  IF r.ok /\ SkipWhile(s, r.next, JsonWs) = Len(s) + 1 THEN r ELSE ParseFail

\* key in d, for a dict d
HasKey(d, key) == \E k \in 1..Len(d.v) : d.v[k].k = key

\* d.get(key, default) for a dict d: the last member written with that key
DictGet(d, key, default) ==
    IF HasKey(d, key)
    THEN d.v[CHOOSE k \in 1..Len(d.v) :
                 d.v[k].k = key /\ \A j \in (k + 1)..Len(d.v) : d.v[j].k # key].v
    ELSE default

(***************************************************************************)
(* The category suggester                                                  *)
(***************************************************************************)
\* category_keywords, in the order of the dict
CategoryKeywords ==
    <<[name |-> "food",
       kws |-> <<<<"r", "e", "s", "t", "a", "u", "r", "a", "n", "t", "e">>,
                 <<"c", "a", "f", "é">>,
                 <<"c", "o", "m", "i", "d", "a">>,
                 <<"a", "l", "i", "m", "e", "n", "t", "o", "s">>,
                 <<"r", "e", "s", "t", "a", "u", "r", "a", "n", "t">>,
                 <<"c", "a", "f", "e">>>>],
      [name |-> "transport",
       kws |-> <<<<"t", "a", "x", "i">>,
                 <<"u", "b", "e", "r">>,
                 <<"t", "r", "a", "n", "s", "p", "o", "r", "t", "e">>,
                 <<"g", "a", "s", "o", "l", "i", "n", "a">>,
                 <<"p", "a", "r", "k", "i", "n", "g">>>>],
      [name |-> "shopping",
       kws |-> <<<<"t", "i", "e", "n", "d", "a">>,
                 <<"c", "o", "m", "p", "r", "a">>,
                 <<"m", "a", "l", "l">>,
                 <<"r", "o", "p", "a">>,
                 <<"z", "a", "p", "a", "t", "o", "s">>>>],
      [name |-> "health",
       kws |-> <<<<"f", "a", "r", "m", "a", "c", "i", "a">>,
                 <<"m", "é", "d", "i", "c", "o">>,
                 <<"s", "a", "l", "u", "d">>,
                 <<"m", "e", "d", "i", "c", "i", "n", "a", "s">>>>],
      [name |-> "entertainment",
       kws |-> <<<<"c", "i", "n", "e">>,
                 <<"t", "e", "a", "t", "r", "o">>,
                 <<"c", "o", "n", "c", "i", "e", "r", "t", "o">>,
                 <<"e", "n", "t", "r", "e", "t", "e", "n", "i", "m", "i", "e", "n", "t", "o">>>>],
      [name |-> "utilities",
       kws |-> <<<<"s", "e", "r", "v", "i", "c", "i", "o", "s">>,
                 <<"l", "u", "z">>,
                 <<"a", "g", "u", "a">>,
                 <<"g", "a", "s">>,
                 <<"t", "e", "l", "é", "f", "o", "n", "o">>>>],
      [name |-> "education",
       kws |-> <<<<"l", "i", "b", "r", "o", "s">>,
                 <<"c", "u", "r", "s", "o">>,
                 <<"e", "d", "u", "c", "a", "c", "i", "ó", "n">>,
                 <<"c", "o", "l", "e", "g", "i", "o">>>>]>>

\* keyword in text
IsSubstr(kw, s) ==
    \E i \in 1..(Len(s) - Len(kw) + 1) : SubSeq(s, i, i + Len(kw) - 1) = kw

RECURSIVE KeywordScore(_, _, _)
\* the score of one category: 0.3 per keyword in the text, 0.5 per keyword
\* in the vendor
KeywordScore(kws, textLower, vendorLower) ==
    IF kws = <<>> THEN 0
    ELSE (IF IsSubstr(Head(kws), textLower) THEN 300 ELSE 0)
         + (IF IsSubstr(Head(kws), vendorLower) THEN 500 ELSE 0)
         + KeywordScore(Tail(kws), textLower, vendorLower)

RECURSIVE CategoryLoop(_, _, _, _)
\* the loop over the categories from number k on: a strictly higher score
\* replaces the best one
CategoryLoop(best, textLower, vendorLower, k) ==
    IF k > Len(CategoryKeywords) THEN best
    ELSE LET score == KeywordScore(CategoryKeywords[k].kws, textLower, vendorLower)
         IN  CategoryLoop(IF score > best.score
                          THEN [name |-> Some(CategoryKeywords[k].name), score |-> score]
                          ELSE best,
                          textLower, vendorLower, k + 1)

\* SuggestCategory with the confidence left uncapped
SuggestCategory_NoCap(s, vendor) ==
    LET best == CategoryLoop([name |-> NoneV, score |-> 0], Lower(s), Lower(vendor), 1)
    IN  [value |-> best.name, conf |-> best.score]

\* OCRService._suggest_category for a text and a vendor string ('' for a
\* vendor that is None or empty); transaction_type is not read
SuggestCategory(s, vendor) ==
    LET best == CategoryLoop([name |-> NoneV, score |-> 0], Lower(s), Lower(vendor), 1)
    IN  [value |-> best.name, conf |-> IF best.score < 900 THEN best.score ELSE 900]

\* The words a transcript of the category runs is made of, and the vendors
CategoryWords ==
    <<<<"R", "e", "s", "t", "a", "u", "r", "a", "n", "t", "e">>,
      <<"C", "A", "F", "É">>,
      <<"c", "o", "m", "i", "d", "a">>,
      <<"T", "a", "x", "i">>,
      <<"g", "a", "s", "o", "l", "i", "n", "a">>,
      <<"T", "i", "e", "n", "d", "a">>,
      <<"l", "u", "z">>,
      <<"C", "i", "n", "e">>,
      <<"r", "e", "c", "i", "b", "o">>>>

CategoryVendors ==
    {NoneV,
     Some(<<"R", "e", "s", "t", "a", "u", "r", "a", "n", "t", "e", " ", "E", "l", " ", "C", "a", "f", "é">>),
     Some(<<"T", "a", "x", "i", " ", "U", "b", "e", "r">>),
     Some(<<"C", "A", "F", "E", " ", "C", "I", "N", "E">>),
     Some(<<"G", "a", "s", "o", "l", "i", "n", "a", " ", "y", " ", "G", "a", "s">>),
     Some(<<"E", "x", "i", "t", "o">>),
     Some(<<>>)}

MaxWords == 3

\* a transcript of up to MaxWords words, and the vendor found on it
CategoryDocs ==
    [words : UNION {[1..n -> 1..Len(CategoryWords)] : n \in 0..MaxWords},
     vendor : CategoryVendors]

RECURSIVE JoinWords(_)
JoinWords(ws) ==
    IF ws = <<>> THEN <<>>
    ELSE IF Len(ws) = 1 THEN CategoryWords[ws[1]]
    ELSE CategoryWords[ws[1]] \o <<" ">> \o JoinWords(Tail(ws))

InitCategory ==
    /\ doc \in CategoryDocs
    /\ text = JoinWords(doc.words)
    /\ pc = "call"
    /\ image = NoImage
    /\ upload = NoUpload
    /\ args = DefaultArgs
    /\ calls = 0
    /\ result = NoField
    /\ error = NoError
    /\ db = NoRows
    /\ history = <<>>

\* _suggest_category(text, vendor, transaction_type): a vendor that is None
\* or empty counts as ""
CallSuggestCategory ==
    /\ pc = "call"
    /\ result' = SuggestCategory(text, IF doc.vendor = NoneV THEN <<>> ELSE doc.vendor[1])
    /\ pc' = "ret"
    /\ UNCHANGED <<doc, upload, image, args, calls, text, error, db, history>>

NextCategory == CallSuggestCategory

SpecCategory == InitCategory /\ [][NextCategory]_vars

(***************************************************************************)
(* Claims about the category suggester (checked under SpecCategory)        *)
(***************************************************************************)
\* the vendor string of the run
VendorString == IF doc.vendor = NoneV THEN <<>> ELSE doc.vendor[1]

\* number of keywords of category number k found in the lower-case string s
KeywordsIn(k, s) ==
    Cardinality({i \in 1..Len(CategoryKeywords[k].kws) : IsSubstr(CategoryKeywords[k].kws[i], s)})

\* 0.3 per keyword in the transcript plus 0.5 per keyword in the vendor,
\* for every category
Scores ==
    LET t == Lower(text)
        v == Lower(VendorString)
    IN  [k \in 1..Len(CategoryKeywords) |-> 300 * KeywordsIn(k, t) + 500 * KeywordsIn(k, v)]

\* the highest of the scores sc
MaxScore(sc) == CHOOSE m \in {sc[k] : k \in DOMAIN sc} : \A k \in DOMAIN sc : sc[k] <= m

\* C11: every category scores 0.3 per keyword found in the transcript plus
\* 0.5 per keyword found in the vendor string, case-insensitively; the
\* suggester returns a category of the highest score with confidence
\* min(score, 0.9), and (None, 0.0) when every score is zero, so that a
\* suggested category has a confidence above 0 and at most 0.9.
C11_CategoryScore ==
    pc = "ret" =>
        LET sc  == Scores
            max == MaxScore(sc)
        IN  IF max = 0
            THEN result = NoField
            ELSE /\ result.value # NoneV
                 /\ \E k \in DOMAIN sc :
                        CategoryKeywords[k].name = result.value[1] /\ sc[k] = max
                 /\ result.conf = (IF max < 900 THEN max ELSE 900)
                 /\ result.conf > 0
                 /\ result.conf <= 900

\* a category whose score is over 0.9 was suggested with confidence 0.9
C11_Witness ==
    /\ pc = "ret"
    /\ MaxScore(Scores) > 900
    /\ result.value = Some("food")
    /\ result.conf = 900

(***************************************************************************)
(* The structured field mapper                                             *)
(***************************************************************************)
K_transaction == <<"t", "r", "a", "n", "s", "a", "c", "t", "i", "o", "n">>

K_merchant == <<"m", "e", "r", "c", "h", "a", "n", "t">>

K_confidence == <<"c", "o", "n", "f", "i", "d", "e", "n", "c", "e">>

K_total == <<"t", "o", "t", "a", "l">>

K_subtotal == <<"s", "u", "b", "t", "o", "t", "a", "l">>

K_date == <<"d", "a", "t", "e">>

K_name == <<"n", "a", "m", "e">>

K_extracted_text == <<"e", "x", "t", "r", "a", "c", "t", "e", "d", "_", "t", "e", "x", "t">>

K_overall == <<"o", "v", "e", "r", "a", "l", "l">>

K_amount == <<"a", "m", "o", "u", "n", "t">>

K_items == <<"i", "t", "e", "m", "s">>

K_payment_method == <<"p", "a", "y", "m", "e", "n", "t", "_", "m", "e", "t", "h", "o", "d">>

K_invoice_number == <<"i", "n", "v", "o", "i", "c", "e", "_", "n", "u", "m", "b", "e", "r">>

K_tax == <<"t", "a", "x">>

K_currency == <<"c", "u", "r", "r", "e", "n", "c", "y">>

\* a number of the result, in thousandths
PyNum(m) == [t |-> "number", v |-> m]

\* the thousandths of a JSON number (three fraction digits are kept)
MilliOf(n) ==
    LET m == n.u * 1000 + ToNat(SubSeq(n.f \o <<"0", "0", "0">>, 1, 3))
    IN  IF n.neg THEN 0 - m ELSE m

\* a value read from the payload as it appears in the result: a number in
\* thousandths, any other value as it is
FromJson(j) == IF j.t = "num" THEN PyNum(MilliOf(j.v)) ELSE j

\* bool(x) for a JSON value
Truthy(j) ==
    CASE j.t = "null" -> FALSE
      [] j.t = "bool" -> j.v
      [] j.t = "num"  -> MilliOf(j.v) # 0
      [] OTHER        -> j.v # <<>>

\* EqualsZero that takes no value for zero
EqualsZero_Never(x) == FALSE

\* x == 0 for a value of the result
EqualsZero(x) == (x.t = "number" /\ x.v = 0) \/ (x.t = "bool" /\ x.v = FALSE)

\* x * 0.4 is defined: x is an int, a float or a bool
IsNumeric(x) == x.t \in {"number", "bool"}

\* the thousandths x counts for in arithmetic
NumericValue(x) == IF x.t = "bool" THEN (IF x.v THEN 1000 ELSE 0) ELSE x.v

\* the mean of the four confidences, every weight 0.25
WeightedConfidence_Unweighted(a, d, c, v) == (a + d + c + v) \div 4

\* amount * 0.4 + date * 0.3 + category * 0.2 + vendor * 0.1, in thousandths
WeightedConfidence(a, d, c, v) == (4 * a + 3 * d + 2 * c + 1 * v) \div 10

\* Decimal(str(x)) for an int or a float x (two fraction digits are kept)
DecimalOfNumber(n) ==
    LET d == [u |-> n.u, c |-> ToNat(SubSeq(n.f \o <<"0", "0">>, 1, 2))]
    IN  IF n.neg THEN [u |-> d.u, c |-> d.c, neg |-> TRUE] ELSE d

\* lines 319-336: the amount of the payload as a Decimal, None when it is
\* null or when Decimal raises InvalidOperation
ProcessedAmount(raw) ==
    CASE raw.t = "null" -> NoneV
      [] raw.t = "str"  ->
            LET d == DecimalOf(Strip(Remove(raw.v, ",")))
            IN  IF d = Invalid THEN NoneV ELSE Some(d)
      [] raw.t = "num"  -> Some(DecimalOfNumber(raw.v))
      [] OTHER          -> NoneV

\* a string or null of the payload as an Optional value of the result
OptionalOf(j) ==
    CASE j.t = "null" -> NoneV
      [] j.t = "str"  -> Some(j.v)
      [] OTHER        -> Some(j)

Raised(exc) == [raised |-> exc]

\* the amount read from total alone
RawAmount_TotalOnly(transaction) == DictGet(transaction, K_total, JNull)

\* lines 284-287: transaction.get("total"), and transaction.get("subtotal")
\* when that is None
RawAmount(transaction) ==
    LET total == DictGet(transaction, K_total, JNull)
    IN  IF total.t = "null" THEN DictGet(transaction, K_subtotal, JNull) ELSE total

Returned(data) == [raised |-> "", data |-> data]

\* OCRService._parse_structured_json: the dict it returns, or the exception
\* that leaves it
ParseStructuredJson(json_data, transaction_type, classification) ==
    LET transaction == DictGet(json_data, K_transaction, JObj(<<>>))
        merchant    == DictGet(json_data, K_merchant, JObj(<<>>))
        confidence  == DictGet(json_data, K_confidence, JObj(<<>>))
        amount      == RawAmount(transaction)
        amount_confidence == FromJson(DictGet(confidence, K_amount, JNum(FALSE, 0, <<"8">>)))
        date        == DictGet(transaction, K_date, JNull)
        date_confidence == FromJson(DictGet(confidence, K_date, JNum(FALSE, 0, <<"7">>)))
        vendor      == DictGet(merchant, K_name, JNull)
        vendor_confidence == FromJson(DictGet(confidence, K_merchant, JNum(FALSE, 0, <<"8">>)))
        extracted_text == DictGet(json_data, K_extracted_text, JStr(<<>>))
        category    == SuggestCategory(extracted_text.v, IF Truthy(vendor) THEN vendor.v ELSE <<>>)
        overall     == FromJson(DictGet(confidence, K_overall, JNum(FALSE, 0, <<"8">>)))
        recompute   == EqualsZero(overall)
    IN  IF transaction.t # "obj" \/ confidence.t # "obj" \/ merchant.t # "obj"
        THEN Raised("AttributeError")
        ELSE IF extracted_text.t # "str" \/ (Truthy(vendor) /\ vendor.t # "str")
        THEN Raised("AttributeError")
        ELSE IF recompute /\ ~(IsNumeric(amount_confidence) /\ IsNumeric(date_confidence)
                               /\ IsNumeric(vendor_confidence))
        THEN Raised("TypeError")
        ELSE Returned(
            [amount |-> ProcessedAmount(amount),
             amount_confidence |-> amount_confidence,
             transaction_date |-> OptionalOf(date),
             date_confidence |-> date_confidence,
             vendor |-> OptionalOf(vendor),
             vendor_confidence |-> vendor_confidence,
             category_suggested |-> category.value,
             category_confidence |-> PyNum(category.conf),
             confidence |-> IF recompute
                            THEN PyNum(WeightedConfidence(NumericValue(amount_confidence),
                                                          NumericValue(date_confidence),
                                                          category.conf,
                                                          NumericValue(vendor_confidence)))
                            ELSE overall,
             transaction_type |-> transaction_type,
             classification |-> classification,
             structured_data |->
                [merchant |-> merchant,
                 items |-> DictGet(json_data, K_items, JArr(<<>>)),
                 payment_method |-> DictGet(json_data, K_payment_method, JNull),
                 invoice_number |-> DictGet(transaction, K_invoice_number, JNull),
                 subtotal |-> DictGet(transaction, K_subtotal, JNull),
                 tax |-> DictGet(transaction, K_tax, JNull),
                 currency |-> DictGet(transaction, K_currency, JStr(<<"C", "O", "P">>))]])

(***************************************************************************)
(* The response interpreter and the free-text path                         *)
(***************************************************************************)
\* lines 229-263: the dict built from the four extractors
ParseFreeText(s, transaction_type, classification) ==
    LET amount   == ExtractAmount(s)
        date     == ExtractDate(s)
        vendor   == ExtractVendor(s)
        category == SuggestCategory(s, IF vendor.value = NoneV THEN <<>> ELSE vendor.value[1])
    IN  [amount |-> amount.value,
         amount_confidence |-> PyNum(amount.conf),
         transaction_date |-> date.value,
         date_confidence |-> PyNum(date.conf),
         vendor |-> vendor.value,
         vendor_confidence |-> PyNum(vendor.conf),
         category_suggested |-> category.value,
         category_confidence |-> PyNum(category.conf),
         confidence |-> PyNum(WeightedConfidence(amount.conf, date.conf, category.conf, vendor.conf)),
         transaction_type |-> transaction_type,
         classification |-> classification]

\* ParseReceiptText that sends every transcript to the extractors
ParseReceiptText_NeverStructured(s, transaction_type, classification) ==
    Returned(ParseFreeText(s, transaction_type, classification))

\* OCRService._parse_receipt_text: a transcript that json.loads turns into
\* a dict goes to the structured mapper, any other one to the extractors
ParseReceiptText(s, transaction_type, classification) ==
    LET parsed_json == JsonLoads(s)
    IN  IF parsed_json.ok /\ parsed_json.val.t = "obj"
        THEN ParseStructuredJson(parsed_json.val, transaction_type, classification)
        ELSE Returned(ParseFreeText(s, transaction_type, classification))

(***************************************************************************)
(* OCRService.process_receipt_image                                        *)
(*                                                                         *)
(* pc: "start" -> "validated" -> "extracted" -> "done", or "failed" from   *)
(* any step.  Every exception leaves process_receipt_image as an           *)
(* OcrProcessingError with code OCR_PROCESSING_ERROR whose message embeds  *)
(* the message of the exception it wraps; error.wraps lists the wrapped    *)
(* exceptions, outermost first.                                            *)
(***************************************************************************)
OCR_MAX_IMAGE_SIZE_MB == 10

\* OCRService.max_image_size
MaxImageSize == OCR_MAX_IMAGE_SIZE_MB * 1024 * 1024

\* the request fails with the first exception of chain as it was raised,
\* the boundary catching nothing
Fail_Unwrapped(chain) ==
    /\ pc' = "failed"
    /\ error' = [code |-> chain[1], wraps |-> Tail(chain)]

\* the request fails with the exceptions of chain wrapped in the boundary's
Fail(chain) ==
    /\ pc' = "failed"
    /\ error' = [code |-> "OCR_PROCESSING_ERROR", wraps |-> chain]

\* the image gate with the size left unchecked
ValidateImage_NoSizeCheck ==
    /\ pc = "start"
    /\ IF ~image.decodable
       THEN Fail(<<"INVALID_IMAGE_ERROR">>)
       ELSE pc' = "validated" /\ UNCHANGED error
    /\ UNCHANGED <<doc, upload, image, args, calls, text, result, db, history>>

\* OCRService._validate_image, and the except clause of its caller
ValidateImage ==
    /\ pc = "start"
    /\ IF image.size > MaxImageSize
       THEN Fail(<<"IMAGE_SIZE_ERROR">>)
       ELSE IF ~image.decodable
       THEN Fail(<<"INVALID_IMAGE_ERROR">>)
       ELSE pc' = "validated" /\ UNCHANGED error
    /\ UNCHANGED <<doc, upload, image, args, calls, text, result, db, history>>

\* what the vision capability can answer to one request
VisionOutcomes == {"request_error", "bad_status", "malformed", "content"}

\* the vision call that sends the request again, up to three times, after a
\* transport failure
CallVision_Retry(response) ==
    /\ pc = "validated"
    /\ calls' = calls + 1
    /\ doc' = response
    /\ IF response.outcome = "request_error" /\ calls < 2
       THEN UNCHANGED <<pc, error, text>>
       ELSE IF response.outcome = "content" /\ Strip(response.content) # <<>>
       THEN text' = Strip(response.content) /\ pc' = "extracted" /\ UNCHANGED error
       ELSE Fail(<<"OCR_UNKNOWN_ERROR">>) /\ UNCHANGED text
    /\ UNCHANGED <<upload, image, args, result, db, history>>

\* OCRService._extract_text_with_openai: one POST to the vision capability.
\* The errors raised inside its try block (status, empty text, a body of
\* another shape) are caught by its own "except Exception".
CallVision(response) ==
    /\ pc = "validated"
    /\ calls' = calls + 1
    /\ doc' = response
    /\ CASE response.outcome = "request_error" ->
                Fail(<<"OCR_CONNECTION_ERROR">>) /\ UNCHANGED text
         [] response.outcome = "bad_status" ->
                Fail(<<"OCR_UNKNOWN_ERROR", "OCR_SERVICE_ERROR">>) /\ UNCHANGED text
         [] response.outcome = "malformed" ->
                Fail(<<"OCR_UNKNOWN_ERROR", "Exception">>) /\ UNCHANGED text
         [] response.outcome = "content" ->
                IF Strip(response.content) = <<>>
                THEN Fail(<<"OCR_UNKNOWN_ERROR", "NO_TEXT_EXTRACTED">>) /\ UNCHANGED text
                ELSE /\ text' = Strip(response.content)
                     /\ pc' = "extracted"
                     /\ UNCHANGED error
    /\ UNCHANGED <<upload, image, args, result, db, history>>

\* ParseReceipt on a dict the calls share: an amount the transcript lacks
\* keeps the amount of the last call that returned
ParseReceipt_Shared ==
    /\ pc = "extracted"
    /\ LET r    == ParseReceiptText(text, args.transaction_type, args.classification)
           kept == SelectSeq(history, LAMBDA c : c.error = NoError)
       IN  IF r.raised # ""
           THEN Fail(<<r.raised>>) /\ UNCHANGED result
           ELSE /\ result' = [extracted_text |-> text,
                              parsed_data |->
                                  IF kept # <<>> /\ r.data.amount = NoneV
                                  THEN [r.data EXCEPT !.amount =
                                            kept[Len(kept)].result.parsed_data.amount]
                                  ELSE r.data,
                              confidence |-> r.data.confidence]
                /\ pc' = "done"
                /\ UNCHANGED error
    /\ UNCHANGED <<doc, upload, image, args, calls, text, db, history>>

\* OCRService._parse_receipt_text and the return of process_receipt_image
ParseReceipt ==
    /\ pc = "extracted"
    /\ LET r == ParseReceiptText(text, args.transaction_type, args.classification)
       IN  IF r.raised # ""
           THEN Fail(<<r.raised>>) /\ UNCHANGED result
           ELSE /\ result' = [extracted_text |-> text,
                              parsed_data |-> r.data,
                              confidence |-> r.data.confidence]
                /\ pc' = "done"
                /\ UNCHANGED error
    /\ UNCHANGED <<doc, upload, image, args, calls, text, db, history>>

(***************************************************************************)
(* The requests and the responses of the pipeline runs                     *)
(***************************************************************************)
T_Exito == <<"S", "u", "p", "e", "r", "m", "e", "r", "c", "a", "d", "o", " ", "E", "x", "i", "t", "o">>

T_Receipt == <<"S", "u", "p", "e", "r", "m", "e", "r", "c", "a", "d", "o", " ", "E", "x", "i", "t", "o", "\n", "F", "e", "c", "h", "a", ":", " ", "2", "7", "/", "1", "0", "/", "2", "0", "2", "5", "\n", "T", "o", "t", "a", "l", ":", " ", "$", "4", "5", ".", "0", "0", "0">>

T_Restaurant == <<"R", "e", "s", "t", "a", "u", "r", "a", "n", "t", "e", " ", "E", "l", " ", "C", "i", "e", "l", "o", "\n", "2", "7", "/", "1", "0", "/", "2", "0", "2", "5", "\n", "T", "O", "T", "A", "L", ":", " ", "$", "4", "5", ".", "0", "0", "0">>

T_NoInformation == <<"T", "e", "x", "t", "o", " ", "s", "i", "n", " ", "i", "n", "f", "o", "r", "m", "a", "c", "i", "ó", "n">>

\* the transcript of test_parse_receipt_text_low_confidence
T_NoClearInformation == <<"t", "e", "x", "t", "o", " ", "s", "i", "n", " ", "i", "n", "f", "o", "r", "m", "a", "c", "i", "ó", "n", " ", "c", "l", "a", "r", "a", " ", "d", "e", " ", "r", "e", "c", "i", "b", "o">>

T_Taxi == <<"T", "a", "x", "i", " ", "U", "b", "e", "r", "\n", "F", "e", "c", "h", "a", ":", " ", "0", "1", "/", "0", "2", "/", "2", "5", "\n", "V", "a", "l", "o", "r", " ", "$", "1", "2", ".", "5", "0", "0">>

T_AmountOnly == <<"$", "4", "5", ".", "0", "0", "0">>

T_DateOnly == <<"2", "7", "/", "1", "0", "/", "2", "0", "2", "5">>

T_Farmacia == <<"F", "A", "R", "M", "A", "C", "I", "A", " ", "L", "A", " ", "S", "A", "L", "U", "D", "\n", "T", "o", "t", "a", "l", ":", " ", "8", ".", "9", "0", "0">>

T_Truncated == <<"{", "\"", "t", "r", "a", "n", "s", "a", "c", "t", "i", "o", "n", "\"", ":", " ", "{", "\"", "t", "o", "t", "a", "l", "\"", ":", " ", "4", "5", "0", "0", "0", ",", " ", "\"", "d", "a", "t", "e", "\"", ":">>

T_Number == <<"4", "5", "0", "0", "0">>

T_Commas == <<"T", "i", "e", "n", "d", "a", " ", "D", "o", "n", " ", "P", "e", "p", "e", "\n", "2", "7", "/", "1", "0", "/", "2", "0", "2", "5", "\n", "T", "o", "t", "a", "l", ":", " ", "$", " ", ",">>

T_Prefixed == <<"R", "e", "c", "i", "b", "o", ":", " ", "{", "}">>

\* What the capability writes for each member of the object it was asked
\* for; the empty text leaves the member out.
TransactionTexts ==
    {<<>>,
     <<"\"", "t", "r", "a", "n", "s", "a", "c", "t", "i", "o", "n", "\"", ":", " ", "n", "u", "l", "l">>,
     <<"\"", "t", "r", "a", "n", "s", "a", "c", "t", "i", "o", "n", "\"", ":", " ", "{", "}">>,
     <<"\"", "t", "r", "a", "n", "s", "a", "c", "t", "i", "o", "n", "\"", ":", " ", "{", "\"", "t", "o", "t", "a", "l", "\"", ":", " ", "4", "5", "0", "0", "0", ",", " ", "\"", "d", "a", "t", "e", "\"", ":", " ", "\"", "2", "0", "2", "5", "-", "1", "0", "-", "2", "7", "\"", "}">>,
     <<"\"", "t", "r", "a", "n", "s", "a", "c", "t", "i", "o", "n", "\"", ":", " ", "{", "\"", "t", "o", "t", "a", "l", "\"", ":", " ", "n", "u", "l", "l", ",", " ", "\"", "s", "u", "b", "t", "o", "t", "a", "l", "\"", ":", " ", "3", "0", "0", "0", "0", "}">>,
     <<"\"", "t", "r", "a", "n", "s", "a", "c", "t", "i", "o", "n", "\"", ":", " ", "{", "\"", "t", "o", "t", "a", "l", "\"", ":", " ", "\"", "a", "b", "c", "\"", "}">>,
     <<"\"", "t", "r", "a", "n", "s", "a", "c", "t", "i", "o", "n", "\"", ":", " ", "{", "\"", "t", "o", "t", "a", "l", "\"", ":", " ", "\"", "3", "8", ",", "3", "9", "3", ".", "0", "0", "\"", ",", " ", "\"", "d", "a", "t", "e", "\"", ":", " ", "n", "u", "l", "l", "}">>,
     <<"\"", "t", "r", "a", "n", "s", "a", "c", "t", "i", "o", "n", "\"", ":", " ", "{", "\"", "t", "o", "t", "a", "l", "\"", ":", " ", "3", "8", "3", ".", "9", "3", "}">>,
     <<"\"", "t", "r", "a", "n", "s", "a", "c", "t", "i", "o", "n", "\"", ":", " ", "{", "\"", "s", "u", "b", "t", "o", "t", "a", "l", "\"", ":", " ", "3", "0", "0", "0", "0", "}">>,
     <<"\"", "t", "r", "a", "n", "s", "a", "c", "t", "i", "o", "n", "\"", ":", " ", "{", "\"", "t", "o", "t", "a", "l", "\"", ":", " ", "4", "5", "0", "0", "0", ",", " ", "\"", "s", "u", "b", "t", "o", "t", "a", "l", "\"", ":", " ", "3", "0", "0", "0", "0", "}">>}

MerchantTexts ==
    {<<>>,
     <<"\"", "m", "e", "r", "c", "h", "a", "n", "t", "\"", ":", " ", "{", "\"", "n", "a", "m", "e", "\"", ":", " ", "\"", "S", "u", "p", "e", "r", "m", "e", "r", "c", "a", "d", "o", " ", "E", "x", "i", "t", "o", "\"", "}">>,
     <<"\"", "m", "e", "r", "c", "h", "a", "n", "t", "\"", ":", " ", "{", "\"", "n", "a", "m", "e", "\"", ":", " ", "n", "u", "l", "l", "}">>}

ConfidenceTexts ==
    {<<>>,
     <<"\"", "c", "o", "n", "f", "i", "d", "e", "n", "c", "e", "\"", ":", " ", "{", "}">>,
     <<"\"", "c", "o", "n", "f", "i", "d", "e", "n", "c", "e", "\"", ":", " ", "{", "\"", "a", "m", "o", "u", "n", "t", "\"", ":", " ", "0", ".", "9", ",", " ", "\"", "d", "a", "t", "e", "\"", ":", " ", "0", ".", "8", "5", ",", " ", "\"", "m", "e", "r", "c", "h", "a", "n", "t", "\"", ":", " ", "0", ".", "8", ",", " ", "\"", "o", "v", "e", "r", "a", "l", "l", "\"", ":", " ", "0", ".", "8", "5", "}">>,
     <<"\"", "c", "o", "n", "f", "i", "d", "e", "n", "c", "e", "\"", ":", " ", "{", "\"", "a", "m", "o", "u", "n", "t", "\"", ":", " ", "0", ".", "9", ",", " ", "\"", "d", "a", "t", "e", "\"", ":", " ", "0", ".", "8", ",", " ", "\"", "m", "e", "r", "c", "h", "a", "n", "t", "\"", ":", " ", "0", ".", "7", ",", " ", "\"", "o", "v", "e", "r", "a", "l", "l", "\"", ":", " ", "0", "}">>,
     <<"\"", "c", "o", "n", "f", "i", "d", "e", "n", "c", "e", "\"", ":", " ", "{", "\"", "o", "v", "e", "r", "a", "l", "l", "\"", ":", " ", "1", ".", "5", "}">>,
     <<"\"", "c", "o", "n", "f", "i", "d", "e", "n", "c", "e", "\"", ":", " ", "{", "\"", "a", "m", "o", "u", "n", "t", "\"", ":", " ", "-", "0", ".", "1", "}">>,
     <<"\"", "c", "o", "n", "f", "i", "d", "e", "n", "c", "e", "\"", ":", " ", "{", "\"", "a", "m", "o", "u", "n", "t", "\"", ":", " ", "\"", "h", "i", "g", "h", "\"", "}">>,
     <<"\"", "c", "o", "n", "f", "i", "d", "e", "n", "c", "e", "\"", ":", " ", "{", "\"", "a", "m", "o", "u", "n", "t", "\"", ":", " ", "\"", "h", "i", "g", "h", "\"", ",", " ", "\"", "o", "v", "e", "r", "a", "l", "l", "\"", ":", " ", "0", ".", "0", "}">>,
     <<"\"", "c", "o", "n", "f", "i", "d", "e", "n", "c", "e", "\"", ":", " ", "{", "\"", "o", "v", "e", "r", "a", "l", "l", "\"", ":", " ", "0", "}">>,
     <<"\"", "c", "o", "n", "f", "i", "d", "e", "n", "c", "e", "\"", ":", " ", "{", "\"", "a", "m", "o", "u", "n", "t", "\"", ":", " ", "0", ",", " ", "\"", "d", "a", "t", "e", "\"", ":", " ", "0", ".", "0", ",", " ", "\"", "m", "e", "r", "c", "h", "a", "n", "t", "\"", ":", " ", "0", ",", " ", "\"", "o", "v", "e", "r", "a", "l", "l", "\"", ":", " ", "0", ".", "0", "}">>}

ExtractedTextTexts ==
    {<<>>,
     <<"\"", "e", "x", "t", "r", "a", "c", "t", "e", "d", "_", "t", "e", "x", "t", "\"", ":", " ", "\"", "S", "u", "p", "e", "r", "m", "e", "r", "c", "a", "d", "o", " ", "E", "x", "i", "t", "o", "\\", "n", "T", "o", "t", "a", "l", ":", " ", "$", "4", "5", ".", "0", "0", "0", "\"">>,
     <<"\"", "e", "x", "t", "r", "a", "c", "t", "e", "d", "_", "t", "e", "x", "t", "\"", ":", " ", "n", "u", "l", "l">>}

RECURSIVE JoinMembers(_)
\* the members that are written, separated by ", "
JoinMembers(ms) ==
    IF ms = <<>> THEN <<>>
    ELSE IF Head(ms) = <<>> THEN JoinMembers(Tail(ms))
    ELSE IF JoinMembers(Tail(ms)) = <<>> THEN Head(ms)
    ELSE Head(ms) \o <<",", " ">> \o JoinMembers(Tail(ms))

\* the JSON objects the vision capability answers with
Payloads ==
    {<<"{">> \o JoinMembers(<<e, m, t, c>>) \o <<"}">> :
        e \in ExtractedTextTexts, m \in MerchantTexts,
        t \in TransactionTexts, c \in ConfidenceTexts}

\* the answers that are no JSON object
FreeTexts ==
    {T_Receipt, T_Restaurant, T_NoInformation, T_NoClearInformation, T_Prefixed,
     T_Taxi, T_AmountOnly, T_DateOnly, T_Farmacia, T_Truncated, T_Number, T_Commas,
     <<"n", "u", "l", "l">>, <<"t", "r", "u", "e">>, <<>>, <<" ", "\n">>,
     <<"[", "1", ",", " ", "2", "]">>,
     <<"\"">> \o T_Exito \o <<"\"">>,
     <<" ">> \o T_Receipt \o <<"\n">>}

Contents == Payloads \cup FreeTexts

Responses ==
    {[outcome |-> o, content |-> <<>>] : o \in VisionOutcomes \ {"content"}}
    \cup {[outcome |-> "content", content |-> c] : c \in Contents}

NoResponse == [outcome |-> "none", content |-> <<>>]

ImageSizes == {0, 1024, MaxImageSize - 1, MaxImageSize, MaxImageSize + 1}

Images == {i \in [size : ImageSizes, decodable : BOOLEAN] : i.decodable => i.size > 0}

Requests ==
    [transaction_type : {"expense", "income"}, classification : {"personal", "business"}]

NoResult == <<>>

Init ==
    /\ pc = "start"
    /\ image \in Images
    /\ upload = NoUpload
    /\ args \in Requests
    /\ doc = NoResponse
    /\ calls = 0
    /\ text = <<>>
    /\ result = NoResult
    /\ error = NoError
    /\ db = NoRows
    /\ history = <<>>

Next ==
    \/ ValidateImage
    \/ \E response \in Responses : CallVision(response)
    \/ ParseReceipt

Spec == Init /\ [][Next]_vars

(***************************************************************************)
(* The endpoints that receive a receipt image                              *)
(*                                                                         *)
(* POST /ocr (process_receipt_ocr), POST /ocr/analyze (analyze_image_ocr)  *)
(* and POST /transactions/ocr (create_ocr_transaction) check the posted    *)
(* file, read it and call OCRService.process_receipt_image.  pc: "upload"  *)
(* -> "start", or "rejected" when the endpoint refuses the file.           *)
(***************************************************************************)
\* Settings.OCR_ALLOWED_FORMATS
OCR_ALLOWED_FORMATS ==
    {<<"i", "m", "a", "g", "e", "/", "j", "p", "e", "g">>,
     <<"i", "m", "a", "g", "e", "/", "p", "n", "g">>,
     <<"i", "m", "a", "g", "e", "/", "j", "p", "g">>,
     <<"i", "m", "a", "g", "e", "/", "w", "e", "b", "p">>}

T_ImagePrefix == <<"i", "m", "a", "g", "e", "/">>

\* str.startswith
StartsWith(s, prefix) == Len(s) >= Len(prefix) /\ SubSeq(s, 1, Len(prefix)) = prefix

\* "not content_type or not content_type.startswith('image/')"
NotAnImage(content_type) ==
    content_type = NoneV \/ content_type[1] = <<>> \/ ~StartsWith(content_type[1], T_ImagePrefix)

\* "receipt_image.size and receipt_image.size > 10 MB"
TooLarge == upload.sized /\ image.size > 10 * 1024 * 1024

\* the endpoint refuses the request with an error of its own
Reject(code) ==
    /\ pc' = "rejected"
    /\ error' = [code |-> code, wraps |-> <<>>]

\* the endpoint reads the file and calls process_receipt_image
Accept == pc' = "start" /\ UNCHANGED error

\* process_receipt_ocr up to its call of process_receipt_image
ProcessReceiptOcr ==
    /\ pc = "upload"
    /\ upload.endpoint = "ocr"
    /\ IF args.transaction_type \notin {"income", "expense"}
       THEN Reject("INVALID_TRANSACTION_TYPE")
       ELSE IF args.classification \notin {"personal", "business"}
       THEN Reject("INVALID_CLASSIFICATION")
       ELSE IF NotAnImage(upload.content_type)
       THEN Reject("INVALID_FILE_TYPE")
       ELSE IF TooLarge
       THEN Reject("FILE_TOO_LARGE")
       ELSE Accept
    /\ UNCHANGED <<doc, upload, image, args, calls, text, result, db, history>>

\* analyze_image_ocr up to its call of process_receipt_image
AnalyzeImageOcr ==
    /\ pc = "upload"
    /\ upload.endpoint = "ocr/analyze"
    /\ IF NotAnImage(upload.content_type)
       THEN Reject("INVALID_FILE_TYPE")
       ELSE Accept
    /\ UNCHANGED <<doc, upload, image, args, calls, text, result, db, history>>

\* create_ocr_transaction up to its call of process_receipt_image: the
\* patterns of the form fields refuse the request before the handler runs,
\* and a file without content type is not refused
CreateOcrTransaction ==
    /\ pc = "upload"
    /\ upload.endpoint = "transactions/ocr"
    /\ IF args.transaction_type \notin {"income", "expense"}
          \/ args.classification \notin {"personal", "business"}
       THEN Reject("RequestValidationError")
       ELSE IF upload.content_type # NoneV /\ upload.content_type[1] # <<>>
          /\ ~StartsWith(upload.content_type[1], T_ImagePrefix)
       THEN Reject("INVALID_FILE_TYPE")
       ELSE IF TooLarge
       THEN Reject("FILE_TOO_LARGE")
       ELSE Accept
    /\ UNCHANGED <<doc, upload, image, args, calls, text, result, db, history>>

(***************************************************************************)
(* The endpoints after process_receipt_image has returned                  *)
(*                                                                         *)
(* POST /ocr and POST /transactions/ocr turn the result into a             *)
(* CreateManualTransactionRequest and hand it to                           *)
(* TransactionService.create_manual_transaction, whose repository commits  *)
(* the row it adds; POST /ocr/analyze returns the result.  The service is  *)
(* taken as constructed by both endpoints.  pc: "done" -> "created",       *)
(* "analyzed" or "rejected".  What follows the commit (the response, the   *)
(* metadata update of POST /ocr) adds and removes no row.                  *)
(***************************************************************************)
\* the categories init_db seeds that the endpoints fall back on, and food
SeededCategories ==
    {[id |-> "cat-food", name |-> "Alimentación", transaction_type |-> "expense"],
     [id |-> "cat-other-expense", name |-> "Otros Gastos", transaction_type |-> "expense"],
     [id |-> "cat-other-income", name |-> "Otros Ingresos", transaction_type |-> "income"]}

\* categories named as the suggester names them
UserCategories ==
    {[id |-> "cat-user-food", name |-> "Food", transaction_type |-> "expense"],
     [id |-> "cat-user-shopping", name |-> "Shopping", transaction_type |-> "expense"],
     [id |-> "cat-user-sales", name |-> "shopping", transaction_type |-> "income"]}

\* str.lower for the names of the categories
LowerName(name) ==
    CASE name = "Alimentación"   -> "alimentación"
      [] name = "Otros Gastos"   -> "otros gastos"
      [] name = "Otros Ingresos" -> "otros ingresos"
      [] name = "Food"           -> "food"
      [] name = "Shopping"       -> "shopping"
      [] OTHER                   -> name

\* the first category of the type whose name is the suggested one, None
\* when there is none or nothing is suggested
MatchCategory(category_suggested, transaction_type) ==
    LET found == {c \in db.categories :
                     /\ category_suggested # NoneV
                     /\ c.transaction_type = transaction_type
                     /\ LowerName(c.name) = LowerName(category_suggested[1])}
    IN  IF found = {} THEN NoneV ELSE Some((CHOOSE c \in found : TRUE).id)

\* the result took the structured path
Structured(d) == "structured_data" \in DOMAIN d

\* the JSON value a field of parsed_data holds: the member of the payload on
\* the structured path, the extractor's string or None on the free-text path
FieldValue(member, key, extracted) ==
    IF Structured(result.parsed_data)
    THEN DictGet(DictGet(JsonLoads(text).val, member, JObj(<<>>)), key, JNull)
    ELSE IF extracted = NoneV THEN JNull ELSE JStr(extracted[1])

\* amount: Decimal = Field(gt=0, decimal_places=2) for an Optional Decimal
ValidAmount(amount) ==
    /\ amount # NoneV
    /\ "neg" \notin DOMAIN amount[1]
    /\ amount[1].u + amount[1].c > 0

\* "x or None" for an Optional Decimal: Decimal zero is falsy
AmountOrNone(amount) ==
    IF amount # NoneV /\ amount[1].u = 0 /\ amount[1].c = 0 THEN NoneV ELSE amount

\* description: Optional[str] for the vendor the description falls back on
ValidDescription(vendor) == vendor.t \in {"null", "str"}

\* transaction_date: datetime for a value of the payload: a date string, or
\* a number read as a timestamp
ValidDatetime(date) ==
    \/ date.t = "str" /\ IsIsoDate(date.v)
    \/ date.t = "num"

\* the endpoint lets an exception of its own through
Raise(code) ==
    /\ pc' = "rejected"
    /\ error' = [code |-> code, wraps |-> <<>>]

\* POST /ocr turns any other exception into an OcrProcessingError
RaiseWrapped(exc) ==
    /\ pc' = "rejected"
    /\ error' = [code |-> "OCR_PROCESSING_ERROR", wraps |-> <<exc>>]

\* TransactionRepository.create: the row is added and committed
Persist(row) ==
    /\ db' = [db EXCEPT !.transactions = Append(@, row)]
    /\ pc' = "created"
    /\ UNCHANGED error

\* the row create_manual_transaction builds
ManualRow(amount, category_id) ==
    [amount |-> amount, category_id |-> category_id,
     transaction_type |-> args.transaction_type,
     classification |-> args.classification, source |-> "manual"]

\* TransactionService.create_manual_transaction: "" when the category of the
\* request exists and is of the type of the transaction, else the code of
\* the ValidationError
CategoryError(category_id) ==
    LET category == {c \in db.categories : category_id # NoneV /\ c.id = category_id[1]}
    IN  IF category = {} THEN "INVALID_CATEGORY"
        ELSE IF (CHOOSE c \in category : TRUE).transaction_type # args.transaction_type
        THEN "CATEGORY_TYPE_MISMATCH"
        ELSE ""

\* the overall confidence under which POST /ocr refuses the extraction
LOW_CONFIDENCE == 300

\* Settings.OCR_MIN_CONFIDENCE
OCR_MIN_CONFIDENCE == 700

\* process_receipt_ocr from the result of process_receipt_image on
ProcessReceiptOcrCreate ==
    /\ pc = "done"
    /\ upload.endpoint = "ocr"
    /\ LET parsed_data == result.parsed_data
           confidence  == result.confidence
           category_id == MatchCategory(parsed_data.category_suggested, args.transaction_type)
           amount      == AmountOrNone(parsed_data.amount)
           date        == FieldValue(K_transaction, K_date, parsed_data.transaction_date)
           vendor      == FieldValue(K_merchant, K_name, parsed_data.vendor)
       IN  IF ~IsNumeric(confidence)
           THEN RaiseWrapped("TypeError") /\ UNCHANGED db
           ELSE IF NumericValue(confidence) < LOW_CONFIDENCE
           THEN Raise("LOW_CONFIDENCE") /\ UNCHANGED db
           ELSE IF ~(ValidAmount(amount) /\ ValidDescription(vendor)
                     /\ Truthy(date) /\ ValidDatetime(date))
           THEN RaiseWrapped("pydantic.ValidationError") /\ UNCHANGED db
           ELSE IF CategoryError(category_id) # ""
           THEN RaiseWrapped(CategoryError(category_id)) /\ UNCHANGED db
           ELSE Persist(ManualRow(amount[1], category_id[1]))
    /\ UNCHANGED <<doc, upload, image, args, calls, text, result, history>>

\* analyze_image_ocr from the result on: it returns the analysis
AnalyzeImageOcrReturn ==
    /\ pc = "done"
    /\ upload.endpoint = "ocr/analyze"
    /\ pc' = "analyzed"
    /\ UNCHANGED <<doc, upload, image, args, calls, text, result, error, db, history>>

\* create_ocr_transaction from the result on: the category falls back on
\* the default of the type, the date on the current time
CreateOcrTransactionCreate ==
    /\ pc = "done"
    /\ upload.endpoint = "transactions/ocr"
    /\ LET parsed_data == result.parsed_data
           matched     == MatchCategory(parsed_data.category_suggested, args.transaction_type)
           category_id == IF matched # NoneV THEN matched
                          ELSE IF args.transaction_type = "expense"
                          THEN Some("cat-other-expense")
                          ELSE Some("cat-other-income")
           amount      == parsed_data.amount
           date        == FieldValue(K_transaction, K_date, parsed_data.transaction_date)
           vendor      == FieldValue(K_merchant, K_name, parsed_data.vendor)
       IN  IF Truthy(date) /\ date.t # "str"
           THEN Raise("TypeError") /\ UNCHANGED db
           ELSE IF Truthy(date) /\ ~IsIsoDate(date.v)
           THEN Raise("ValueError") /\ UNCHANGED db
           ELSE IF ~(ValidAmount(amount) /\ ValidDescription(vendor))
           THEN Raise("pydantic.ValidationError") /\ UNCHANGED db
           ELSE IF CategoryError(category_id) # ""
           THEN Raise(CategoryError(category_id)) /\ UNCHANGED db
           ELSE Persist(ManualRow(amount[1], category_id[1]))
    /\ UNCHANGED <<doc, upload, image, args, calls, text, result, history>>

\* the content types of the uploads
ContentTypes ==
    {NoneV} \cup {Some(c) : c \in OCR_ALLOWED_FORMATS}
    \cup {Some(<<"i", "m", "a", "g", "e", "/", "g", "i", "f">>),
          Some(<<"i", "m", "a", "g", "e", "/", "b", "m", "p">>),
          Some(<<"i", "m", "a", "g", "e", "/", "s", "v", "g", "+", "x", "m", "l">>),
          Some(<<"a", "p", "p", "l", "i", "c", "a", "t", "i", "o", "n", "/", "p", "d", "f">>),
          Some(<<"t", "e", "x", "t", "/", "p", "l", "a", "i", "n">>)}

Endpoints == {"ocr", "ocr/analyze", "transactions/ocr"}

Uploads == [endpoint : Endpoints, content_type : ContentTypes, sized : BOOLEAN]

\* the form fields of the uploads
UploadArgs ==
    [transaction_type : {"expense", "income", "transfer"},
     classification : {"personal", "business", "other"}]

\* payloads of the vision capability for the uploads
\* {"transaction": {"total": 45000, "date": "2025-10-27"}, "confidence": {"overall": 0.2, "amount": 0.5}}
P_LowOverall ==
    <<"{", "\"", "t", "r", "a", "n", "s", "a", "c", "t", "i", "o", "n", "\"", ":", " ", "{", "\"", "t", "o", "t", "a", "l", "\"", ":", " ", "4", "5", "0", "0", "0", ",", " ", "\"", "d", "a", "t", "e", "\"", ":", " ", "\"", "2", "0", "2", "5", "-", "1", "0", "-", "2", "7", "\"", "}", ",", " ", "\"", "c", "o", "n", "f", "i", "d", "e", "n", "c", "e", "\"", ":", " ", "{", "\"", "o", "v", "e", "r", "a", "l", "l", "\"", ":", " ", "0", ".", "2", ",", " ", "\"", "a", "m", "o", "u", "n", "t", "\"", ":", " ", "0", ".", "5", "}", "}">>

\* {"extracted_text": "Restaurante El Cielo", "merchant": {"name": "Restaurante El Cielo"}, "transaction": {"total": 45000, "date": "2025-10-27"}, "confidence": {"overall": 0.9, "amount": 0.95}}
P_Restaurant ==
    <<"{", "\"", "e", "x", "t", "r", "a", "c", "t", "e", "d", "_", "t", "e", "x", "t", "\"", ":", " ", "\"", "R", "e", "s", "t", "a", "u", "r", "a", "n", "t", "e", " ", "E", "l", " ", "C", "i", "e", "l", "o", "\"", ",", " ", "\"", "m", "e", "r", "c", "h", "a", "n", "t", "\"", ":", " ", "{", "\"", "n", "a", "m", "e", "\"", ":", " ", "\"", "R", "e", "s", "t", "a", "u", "r", "a", "n", "t", "e", " ", "E", "l", " ", "C", "i", "e", "l", "o", "\"", "}", ",", " ", "\"", "t", "r", "a", "n", "s", "a", "c", "t", "i", "o", "n", "\"", ":", " ", "{", "\"", "t", "o", "t", "a", "l", "\"", ":", " ", "4", "5", "0", "0", "0", ",", " ", "\"", "d", "a", "t", "e", "\"", ":", " ", "\"", "2", "0", "2", "5", "-", "1", "0", "-", "2", "7", "\"", "}", ",", " ", "\"", "c", "o", "n", "f", "i", "d", "e", "n", "c", "e", "\"", ":", " ", "{", "\"", "o", "v", "e", "r", "a", "l", "l", "\"", ":", " ", "0", ".", "9", ",", " ", "\"", "a", "m", "o", "u", "n", "t", "\"", ":", " ", "0", ".", "9", "5", "}", "}">>

\* {"transaction": {"date": "2025-10-27"}, "confidence": {"overall": 0.9}}
P_NoAmount ==
    <<"{", "\"", "t", "r", "a", "n", "s", "a", "c", "t", "i", "o", "n", "\"", ":", " ", "{", "\"", "d", "a", "t", "e", "\"", ":", " ", "\"", "2", "0", "2", "5", "-", "1", "0", "-", "2", "7", "\"", "}", ",", " ", "\"", "c", "o", "n", "f", "i", "d", "e", "n", "c", "e", "\"", ":", " ", "{", "\"", "o", "v", "e", "r", "a", "l", "l", "\"", ":", " ", "0", ".", "9", "}", "}">>

\* {"transaction": {"total": 45000, "date": "2025-10-27"}, "confidence": {"overall": "high"}}
P_OverallHigh ==
    <<"{", "\"", "t", "r", "a", "n", "s", "a", "c", "t", "i", "o", "n", "\"", ":", " ", "{", "\"", "t", "o", "t", "a", "l", "\"", ":", " ", "4", "5", "0", "0", "0", ",", " ", "\"", "d", "a", "t", "e", "\"", ":", " ", "\"", "2", "0", "2", "5", "-", "1", "0", "-", "2", "7", "\"", "}", ",", " ", "\"", "c", "o", "n", "f", "i", "d", "e", "n", "c", "e", "\"", ":", " ", "{", "\"", "o", "v", "e", "r", "a", "l", "l", "\"", ":", " ", "\"", "h", "i", "g", "h", "\"", "}", "}">>

\* {"transaction": {"total": 45000, "date": "31/02/2025"}}
P_BadDate ==
    <<"{", "\"", "t", "r", "a", "n", "s", "a", "c", "t", "i", "o", "n", "\"", ":", " ", "{", "\"", "t", "o", "t", "a", "l", "\"", ":", " ", "4", "5", "0", "0", "0", ",", " ", "\"", "d", "a", "t", "e", "\"", ":", " ", "\"", "3", "1", "/", "0", "2", "/", "2", "0", "2", "5", "\"", "}", "}">>

\* the answers of the vision capability to the uploads
UploadResponses ==
    {[outcome |-> o, content |-> <<>>] : o \in VisionOutcomes \ {"content"}}
    \cup {[outcome |-> "content", content |-> c] :
            c \in {T_Receipt, T_NoInformation, T_AmountOnly, <<>>,
                   P_LowOverall, P_Restaurant, P_NoAmount, P_OverallHigh, P_BadDate}}

\* the images of the uploads: one under and one over the maximum size
UploadImages == {i \in Images : i.size \in {1024, MaxImageSize + 1}}

\* the categories the database holds when the request arrives
CategoryTables == {{}, SeededCategories, SeededCategories \cup UserCategories}

InitUpload ==
    /\ pc = "upload"
    /\ upload \in Uploads
    /\ image \in UploadImages
    /\ args \in UploadArgs
    /\ doc = NoResponse
    /\ calls = 0
    /\ text = <<>>
    /\ result = NoResult
    /\ error = NoError
    /\ db \in {[categories |-> c, transactions |-> <<>>] : c \in CategoryTables}
    /\ history = <<>>

NextUpload ==
    \/ ProcessReceiptOcr
    \/ AnalyzeImageOcr
    \/ CreateOcrTransaction
    \/ ValidateImage
    \/ \E response \in UploadResponses : CallVision(response)
    \/ ParseReceipt
    \/ ProcessReceiptOcrCreate
    \/ AnalyzeImageOcrReturn
    \/ CreateOcrTransactionCreate

SpecUpload == InitUpload /\ [][NextUpload]_vars

(***************************************************************************)
(* Requests one after another                                              *)
(*                                                                         *)
(* Every request runs process_receipt_image on an OCRService of its own    *)
(* ("async with OCRService() as ocr_service"); history keeps the calls     *)
(* that have returned, each with its arguments, the response of the vision *)
(* capability and what the call returned or raised.                        *)
(***************************************************************************)
\* the number of requests of a run
MaxCalls == 3

SessionImages ==
    {[size |-> 1024, decodable |-> TRUE], [size |-> MaxImageSize + 1, decodable |-> TRUE]}

SessionArgs ==
    {[transaction_type |-> "expense", classification |-> "personal"],
     [transaction_type |-> "income", classification |-> "business"]}

SessionResponses ==
    {[outcome |-> "request_error", content |-> <<>>]}
    \cup {[outcome |-> "content", content |-> c] : c \in {T_AmountOnly, T_NoInformation}}

\* process_receipt_image returns its dict or raises its OcrProcessingError
ReturnCall ==
    /\ pc \in {"done", "failed"}
    /\ history' = Append(history, [image |-> image, args |-> args, doc |-> doc,
                                   result |-> result, error |-> error])
    /\ pc' = "returned"
    /\ UNCHANGED <<doc, upload, image, args, calls, text, result, error, db>>

\* the next request arrives: a new OCRService, new arguments, new locals
NextCall ==
    /\ pc = "returned"
    /\ Len(history) < MaxCalls
    /\ image' \in SessionImages
    /\ args' \in SessionArgs
    /\ pc' = "start"
    /\ doc' = NoResponse
    /\ text' = <<>>
    /\ result' = NoResult
    /\ error' = NoError
    /\ UNCHANGED <<upload, calls, db, history>>

InitSession ==
    /\ pc = "start"
    /\ image \in SessionImages
    /\ upload = NoUpload
    /\ args \in SessionArgs
    /\ doc = NoResponse
    /\ calls = 0
    /\ text = <<>>
    /\ result = NoResult
    /\ error = NoError
    /\ db = NoRows
    /\ history = <<>>

NextSession ==
    \/ ValidateImage
    \/ \E response \in SessionResponses : CallVision(response)
    \/ ParseReceipt
    \/ ReturnCall
    \/ NextCall

SpecSession == InitSession /\ [][NextSession]_vars

(***************************************************************************)
(* The offline batches (backend/app/services/transaction_service.py)       *)
(*                                                                         *)
(* sync_transactions(db, user_id, items) runs in the session of its        *)
(* caller: get_db commits when it returns and rolls back when it raises.   *)
(* db.transactions is the table, a row being [id, user_id, client_id,      *)
(* account_id, transaction_type, amount]; doc is the batch and the table   *)
(* before it.  pc: "idle" -> "synced" or "raised".                         *)
(***************************************************************************)
\* the result of Decimal(...) that is not a number
NaN == [nan |-> TRUE]

\* Decimal(str(payload["amount"])) for the amounts of the items: a number
\* with or without sign, NaN, or InvalidOperation
PayloadDecimal(s) ==
    IF Lower(s) = <<"n", "a", "n">> THEN NaN
    ELSE IF s # <<>> /\ s[1] = "-"
    THEN LET d == DecimalOf(Tail(s))
         IN  IF d = Invalid THEN Invalid ELSE [u |-> d.u, c |-> d.c, neg |-> TRUE]
    ELSE DecimalOf(s)

\* _validate_payload: "" when the payload passes, "error" when it raises
\* TransactionValidationError, else the exception that escapes it; the
\* comparison of a NaN with 0 raises decimal.InvalidOperation
ValidatePayload(item) ==
    IF item.amount = NoneV THEN "error"
    ELSE LET amount == PayloadDecimal(item.amount[1])
         IN  IF amount = Invalid THEN "error"
             ELSE IF amount = NaN THEN "InvalidOperation"
             ELSE IF "neg" \in DOMAIN amount \/ amount.u + amount.c = 0 THEN "error"
             ELSE IF item.transaction_type \notin {"income", "expense"} THEN "error"
             ELSE ""

\* create_transaction: the row that is added and flushed
NewRow(rows, user_id, item) ==
    [id |-> Len(rows) + 1, user_id |-> user_id, client_id |-> item.client_id,
     account_id |-> item.account_id, transaction_type |-> item.transaction_type,
     amount |-> PayloadDecimal(item.amount[1])]

\* the rows of the user with the client_id; "if client_id" skips the
\* lookup for None and for the empty string
Existing(rows, user_id, client_id) ==
    IF client_id = "" THEN {}
    ELSE {k \in 1..Len(rows) : rows[k].user_id = user_id /\ rows[k].client_id = client_id}

RECURSIVE SyncLoop(_, _, _, _, _)
\* the loop of sync_transactions over the items that are left
SyncLoop(rows, results, touched, items, user_id) ==
    IF items = <<>> THEN [rows |-> rows, results |-> results, touched |-> touched, raised |-> ""]
    ELSE LET item     == Head(items)
             existing == Existing(rows, user_id, item.client_id)
             verdict  == ValidatePayload(item)
         IN  IF Cardinality(existing) > 1
             THEN [rows |-> rows, results |-> results, touched |-> touched,
                   raised |-> "MultipleResultsFound"]
             ELSE IF existing # {}
             THEN LET row == rows[CHOOSE k \in existing : TRUE]
                  IN  SyncLoop(rows,
                               Append(results, [client_id |-> item.client_id,
                                                status |-> "duplicate", server_id |-> row.id]),
                               touched \cup {row.account_id}, Tail(items), user_id)
             ELSE IF verdict = "error"
             THEN SyncLoop(rows,
                           Append(results, [client_id |-> item.client_id,
                                            status |-> "error", server_id |-> 0]),
                           touched, Tail(items), user_id)
             ELSE IF verdict # ""
             THEN [rows |-> rows, results |-> results, touched |-> touched, raised |-> verdict]
             ELSE LET t == NewRow(rows, user_id, item)
                  IN  SyncLoop(Append(rows, t),
                               Append(results, [client_id |-> item.client_id,
                                                status |-> "created", server_id |-> t.id]),
                               touched \cup {t.account_id}, Tail(items), user_id)

RECURSIVE SumAmounts(_, _, _, _)
\* get_account_balance: income minus expense of the account, in hundredths
SumAmounts(rows, user_id, account_id, k) ==
    IF k > Len(rows) THEN 0
    ELSE LET r == rows[k]
             v == 100 * r.amount.u + r.amount.c
         IN  SumAmounts(rows, user_id, account_id, k + 1)
             + (IF r.user_id = user_id /\ r.account_id = account_id
                THEN (IF r.transaction_type = "income" THEN v ELSE 0 - v)
                ELSE 0)

\* the number of batches of a run
MaxBatches == 2

\* the number of items of a batch
MaxItems == 2

Users == {"u1", "u2"}

\* the amounts of the items: a number, zero, no number, and NaN
AmountTexts == {<<"4", "5", "0", "0", "0">>, <<"0">>, <<"a", "b", "c">>, <<"N", "a", "N">>}

SyncItems ==
    {[client_id |-> c, amount |-> a, transaction_type |-> "expense", account_id |-> "acc-1"] :
        c \in {"", "c1", "c2"}, a \in {NoneV} \cup {Some(x) : x \in AmountTexts}}
    \cup {[client_id |-> "c1", amount |-> Some(<<"4", "5", "0", "0", "0">>),
           transaction_type |-> ty, account_id |-> "acc-2"] : ty \in {"income", "transfer"}}

Batches == UNION {[1..n -> SyncItems] : n \in 0..MaxItems}

\* sync_transactions for one batch of one user
SyncTransactions(user_id, items) ==
    /\ pc \in {"idle", "synced", "raised"}
    /\ calls < MaxBatches
    /\ calls' = calls + 1
    /\ doc' = [user_id |-> user_id, items |-> items, before |-> db.transactions]
    /\ LET out == SyncLoop(db.transactions, <<>>, {}, items, user_id)
       IN  IF out.raised # ""
           THEN /\ pc' = "raised"
                /\ error' = [code |-> out.raised, wraps |-> <<>>]
                /\ result' = NoResult
                /\ UNCHANGED db
           ELSE /\ pc' = "synced"
                /\ error' = NoError
                /\ result' = [results |-> out.results,
                              balances |-> [a \in out.touched |->
                                               SumAmounts(out.rows, user_id, a, 1)]]
                /\ db' = [transactions |-> out.rows]
    /\ UNCHANGED <<upload, image, args, text, history>>

InitSync ==
    /\ pc = "idle"
    /\ doc = [user_id |-> "", items |-> <<>>, before |-> <<>>]
    /\ image = NoImage
    /\ upload = NoUpload
    /\ args = DefaultArgs
    /\ calls = 0
    /\ text = <<>>
    /\ result = NoResult
    /\ error = NoError
    /\ db = [transactions |-> <<>>]
    /\ history = <<>>

NextSync == \E user_id \in Users, items \in Batches : SyncTransactions(user_id, items)

SpecSync == InitSync /\ [][NextSync]_vars

(***************************************************************************)
(* The bank accounts (app/services/bank_account_service.py).  Each call of *)
(* the service runs on a session of its own against the bank_accounts      *)
(* table the migration creates, and gives up control at every statement it *)
(* awaits, so the calls of different requests interleave statement by      *)
(* statement.  A process is one request at a time: pc[p] is the statement  *)
(* it is about to run, args[p] the call it is serving, with account_name   *)
(* the name of the account as the call read it, and error[p] the outcome   *)
(* of its last call.  A statement reads the rows committed when it runs.   *)
(* Only the owner and the name of an account are kept; an update that      *)
(* names no new name changes another field of the account.                 *)
(***************************************************************************)
\* the requests served at the same time
Procs == {"p1", "p2"}

\* the number of calls of a run
MaxAccountCalls == 3

\* the names of the accounts; "" is a name left out of an update
AccountNames == {"Ahorros", "Efectivo"}

\* the first of the accounts seed_bank_accounts gives the demo user
SeededAccounts == {[id |-> 1, user_id |-> "u1", name |-> "Ahorros"]}

\* the ids an account can have in a run, and the id a create draws
AccountIds == 1..(Cardinality(SeededAccounts) + MaxAccountCalls)

NoCall == [op |-> "", user_id |-> "", account_id |-> 0, name |-> "", account_name |-> ""]

\* the rows of user_id with this name
GetByNameForUser(rows, name, user_id) ==
    {r \in rows : r.name = name /\ r.user_id = user_id}

\* the row of account_id when user_id owns it
GetByIdForUser(rows, account_id, user_id) ==
    {r \in rows : r.id = account_id /\ r.user_id = user_id}

\* the row of account_id
GetById(rows, id) == {r \in rows : r.id = id}

\* a table that lets every name in
UniqueViolation_Unconstrained(rows, id, user_id, name) == FALSE

\* uq_bank_accounts_user_name: the row id of user_id cannot take name while
\* another row of user_id has it
UniqueViolation(rows, id, user_id, name) ==
    \E r \in rows : r.id # id /\ r.user_id = user_id /\ r.name = name

\* the call of p ends with outcome
Finish(p, outcome) ==
    /\ pc' = [pc EXCEPT ![p] = "idle"]
    /\ error' = [error EXCEPT ![p] = outcome]

\* the call of p goes on to the statement label
Goto(p, label) ==
    /\ pc' = [pc EXCEPT ![p] = label]
    /\ UNCHANGED error

\* a request arrives: the service is called
BeginCall(p, op, user_id, account_id, name) ==
    /\ pc[p] = "idle"
    /\ calls < MaxAccountCalls
    /\ calls' = calls + 1
    /\ args' = [args EXCEPT ![p] =
                   [op |-> op, user_id |-> user_id,
                    account_id |-> IF op = "create"
                                  THEN Cardinality(SeededAccounts) + calls + 1
                                  ELSE account_id,
                    name |-> name, account_name |-> ""]]
    /\ pc' = [pc EXCEPT ![p] =
                 CASE op = "create" -> "create_check"
                   [] op = "update" -> "update_load"
                   [] OTHER -> "delete_load"]
    /\ error' = [error EXCEPT ![p] = ""]
    /\ UNCHANGED <<doc, upload, image, text, result, db, history>>

\* _ensure_unique_name: the name is looked up among the accounts of the user
EnsureUniqueName(p, next) ==
    /\ IF GetByNameForUser(db.bank_accounts, args[p].name, args[p].user_id) # {}
       THEN Finish(p, "BANK_ACCOUNT_DUPLICATED_NAME")
       ELSE Goto(p, next)
    /\ UNCHANGED <<doc, upload, image, args, calls, text, result, db, history>>

\* create_account up to the insert: the name is checked
CreateAccountCheck(p) ==
    /\ pc[p] = "create_check"
    /\ EnsureUniqueName(p, "create_commit")

\* repository.create: the row is inserted and committed
CreateAccountCommit(p) ==
    /\ pc[p] = "create_commit"
    /\ IF UniqueViolation(db.bank_accounts, args[p].account_id, args[p].user_id, args[p].name)
       THEN Finish(p, "IntegrityError") /\ UNCHANGED db
       ELSE /\ db' = [db EXCEPT !.bank_accounts =
                         @ \cup {[id |-> args[p].account_id,
                                  user_id |-> args[p].user_id,
                                  name |-> args[p].name]}]
            /\ Goto(p, "create_refresh")
    /\ UNCHANGED <<doc, upload, image, args, calls, text, result, history>>

\* repository.create: the committed row is read back
CreateAccountRefresh(p) ==
    /\ pc[p] = "create_refresh"
    /\ IF GetById(db.bank_accounts, args[p].account_id) = {}
       THEN Finish(p, "InvalidRequestError")
       ELSE Finish(p, "ok")
    /\ UNCHANGED <<doc, upload, image, args, calls, text, result, db, history>>

\* update_account: the account is loaded for its owner, and a name that is
\* not the name loaded is sent to the check
UpdateAccountLoad(p) ==
    /\ pc[p] = "update_load"
    /\ LET found == GetByIdForUser(db.bank_accounts, args[p].account_id, args[p].user_id)
       IN  IF found = {}
           THEN /\ Finish(p, "BANK_ACCOUNT_NOT_FOUND")
                /\ UNCHANGED args
           ELSE LET account == CHOOSE r \in found : TRUE
                IN  /\ args' = [args EXCEPT ![p].account_name = account.name]
                    /\ IF args[p].name # "" /\ args[p].name # account.name
                       THEN Goto(p, "update_check")
                       ELSE Goto(p, "update_get")
    /\ UNCHANGED <<doc, upload, image, calls, text, result, db, history>>

\* update_account: the new name is checked
UpdateAccountCheck(p) ==
    /\ pc[p] = "update_check"
    /\ EnsureUniqueName(p, "update_get")

\* repository.update: the row is read again by its id; the session hands
\* back the account it already holds, and with no row left the response is
\* validated against None
UpdateAccountGet(p) ==
    /\ pc[p] = "update_get"
    /\ IF GetById(db.bank_accounts, args[p].account_id) = {}
       THEN Finish(p, "ValidationError")
       ELSE Goto(p, "update_commit")
    /\ UNCHANGED <<doc, upload, image, args, calls, text, result, db, history>>

\* repository.update: the fields are set on the account held and the commit
\* writes those that differ from the values loaded
UpdateAccountCommit(p) ==
    /\ pc[p] = "update_commit"
    /\ LET renamed == args[p].name # "" /\ args[p].name # args[p].account_name
           rows == db.bank_accounts
           old == GetById(rows, args[p].account_id)
       IN  IF old = {}
           THEN Finish(p, "StaleDataError") /\ UNCHANGED db
           ELSE IF renamed /\ UniqueViolation(rows, args[p].account_id,
                                              args[p].user_id, args[p].name)
           THEN Finish(p, "IntegrityError") /\ UNCHANGED db
           ELSE /\ db' = [db EXCEPT !.bank_accounts =
                             IF renamed
                             THEN (rows \ old) \cup
                                  {[r EXCEPT !.name = args[p].name] : r \in old}
                             ELSE rows]
                /\ Goto(p, "update_refresh")
    /\ UNCHANGED <<doc, upload, image, args, calls, text, result, history>>

\* repository.update: the committed row is read back
UpdateAccountRefresh(p) ==
    /\ pc[p] = "update_refresh"
    /\ IF GetById(db.bank_accounts, args[p].account_id) = {}
       THEN Finish(p, "InvalidRequestError")
       ELSE Finish(p, "ok")
    /\ UNCHANGED <<doc, upload, image, args, calls, text, result, db, history>>

\* delete_for_user: the account is loaded for its owner
DeleteAccountLoad(p) ==
    /\ pc[p] = "delete_load"
    /\ IF GetByIdForUser(db.bank_accounts, args[p].account_id, args[p].user_id) = {}
       THEN Finish(p, "BANK_ACCOUNT_NOT_FOUND")
       ELSE Goto(p, "delete_commit")
    /\ UNCHANGED <<doc, upload, image, args, calls, text, result, db, history>>

\* delete_for_user: the row is deleted and committed
DeleteAccountCommit(p) ==
    /\ pc[p] = "delete_commit"
    /\ db' = [db EXCEPT !.bank_accounts = @ \ GetById(@, args[p].account_id)]
    /\ Finish(p, "ok")
    /\ UNCHANGED <<doc, upload, image, args, calls, text, result, history>>

InitAccounts ==
    /\ pc = [p \in Procs |-> "idle"]
    /\ doc = <<>>
    /\ image = NoImage
    /\ upload = NoUpload
    /\ args = [p \in Procs |-> NoCall]
    /\ calls = 0
    /\ text = <<>>
    /\ result = NoResult
    /\ error = [p \in Procs |-> ""]
    /\ db \in {[bank_accounts |-> {}], [bank_accounts |-> SeededAccounts]}
    /\ history = <<>>

NextAccounts ==
    \E p \in Procs :
        \/ \E user_id \in Users, name \in AccountNames :
              BeginCall(p, "create", user_id, 0, name)
        \/ \E user_id \in Users, account_id \in AccountIds,
              name \in AccountNames \cup {""} :
              BeginCall(p, "update", user_id, account_id, name)
        \/ \E user_id \in Users, account_id \in AccountIds :
              BeginCall(p, "delete", user_id, account_id, "")
        \/ CreateAccountCheck(p)
        \/ CreateAccountCommit(p)
        \/ CreateAccountRefresh(p)
        \/ UpdateAccountLoad(p)
        \/ UpdateAccountCheck(p)
        \/ UpdateAccountGet(p)
        \/ UpdateAccountCommit(p)
        \/ UpdateAccountRefresh(p)
        \/ DeleteAccountLoad(p)
        \/ DeleteAccountCommit(p)

SpecAccounts == InitAccounts /\ [][NextAccounts]_vars

(***************************************************************************)
(* Claims about the pipeline (checked under Spec)                          *)
(***************************************************************************)
\* the image gate rejects the image
GateFails(img) == img.size > MaxImageSize \/ ~img.decodable

\* C1: for every request whose image fails validation (byte length over the
\* configured maximum, or bytes that do not decode as an image) the request
\* fails with the gate's error and the vision capability is never called:
\* the request never gets past the gate and its count of calls stays 0.
C1_GateBeforeVision ==
    GateFails(image) =>
        /\ calls = 0
        /\ pc \in {"start", "failed"}
        /\ pc = "failed" =>
              /\ error.code = "OCR_PROCESSING_ERROR"
              /\ error.wraps \in {<<"IMAGE_SIZE_ERROR">>, <<"INVALID_IMAGE_ERROR">>}

\* an oversize image that decodes was rejected by the gate, no call made
C1_Witness ==
    /\ pc = "failed"
    /\ image.size > MaxImageSize
    /\ image.decodable
    /\ error.wraps = <<"IMAGE_SIZE_ERROR">>
    /\ calls = 0

\* x is a number in [0, 1]
IsConfidence(x) == x.t = "number" /\ x.v >= 0 /\ x.v <= 1000

\* a field is well formed: its confidence is in [0, 1], and 0.0 without value
FieldOk(value, conf) == IsConfidence(conf) /\ (value = NoneV => conf.v = 0)

\* C2: in every result returned, on the free-text path and on the structured
\* path alike, amount, date, vendor and category each have a confidence in
\* [0, 1], and a field whose value is None has confidence exactly 0.0.
C2_FieldConfidences ==
    pc = "done" =>
        LET d == result.parsed_data
        IN  /\ FieldOk(d.amount, d.amount_confidence)
            /\ FieldOk(d.transaction_date, d.date_confidence)
            /\ FieldOk(d.vendor, d.vendor_confidence)
            /\ FieldOk(d.category_suggested, d.category_confidence)

\* the result took the free-text path
FreeTextDone == pc = "done" /\ ~Structured(result.parsed_data)

\* the overall confidence of the result d is the weighted sum of its own
\* four field confidences
OverallIsWeighted(d) ==
    /\ d.confidence.t = "number"
    /\ 10 * d.confidence.v = 4 * d.amount_confidence.v + 3 * d.date_confidence.v
                              + 2 * d.category_confidence.v + 1 * d.vendor_confidence.v

\* C12: on the free-text path the overall confidence of a result equals
\* 0.4*amount_conf + 0.3*date_conf + 0.2*category_conf + 0.1*vendor_conf of
\* the field confidences of that same result, and is the confidence returned
\* with the result; the inputs 0.8, 0.8, 0.85, 0.9 give 0.82.
C12_FreeTextOverall ==
    /\ WeightedConfidence(800, 800, 850, 900) = 820
    /\ FreeTextDone =>
          /\ OverallIsWeighted(result.parsed_data)
          /\ result.confidence = result.parsed_data.confidence

\* C12 as stated: the same, the inputs 0.8, 0.8, 0.85, 0.9 giving 0.79
C12_Original ==
    /\ WeightedConfidence(800, 800, 850, 900) = 790
    /\ FreeTextDone =>
          /\ OverallIsWeighted(result.parsed_data)
          /\ result.confidence = result.parsed_data.confidence

\* a free-text result whose four fields were all found
C12_Witness ==
    /\ FreeTextDone
    /\ result.parsed_data.amount_confidence.v > 0
    /\ result.parsed_data.date_confidence.v > 0
    /\ result.parsed_data.category_confidence.v > 0
    /\ result.parsed_data.vendor_confidence.v > 0
    /\ result.parsed_data.amount_confidence.v # result.parsed_data.vendor_confidence.v

\* the result took the structured path
StructuredDone == pc = "done" /\ Structured(result.parsed_data)

\* the confidence member of the payload the transcript holds
PayloadConfidence == DictGet(JsonLoads(text).val, K_confidence, JObj(<<>>))

\* the payload supplies confidence.overall
OverallSupplied == PayloadConfidence.t = "obj" /\ HasKey(PayloadConfidence, K_overall)

\* confidence.overall as the payload supplies it
SuppliedOverall == FromJson(DictGet(PayloadConfidence, K_overall, JNull))

\* the payload supplies confidence.overall as exactly 0
OverallZero == OverallSupplied /\ SuppliedOverall.t = "number" /\ SuppliedOverall.v = 0

\* C13: on the structured path a non-zero confidence.overall supplied by the
\* payload is the overall confidence of the result, unchanged; when it is
\* exactly 0 the overall confidence is the weighted sum 0.4*amount + 0.3*date
\* + 0.2*category + 0.1*vendor of the result's field confidences, which is
\* above 0 as soon as one of them is.
C13_OverallHonoured ==
    (StructuredDone /\ OverallSupplied) =>
        LET d == result.parsed_data
        IN  IF OverallZero
            THEN /\ OverallIsWeighted(d)
                 /\ (\/ d.amount_confidence.v > 0
                      \/ d.date_confidence.v > 0
                      \/ d.category_confidence.v > 0
                      \/ d.vendor_confidence.v > 0) => d.confidence.v > 0
            ELSE d.confidence = SuppliedOverall

\* a payload with overall 0 and its own field confidences got the weighted sum
C13_Witness ==
    /\ StructuredDone
    /\ OverallZero
    /\ HasKey(PayloadConfidence, K_amount)
    /\ result.parsed_data.amount_confidence.v = 900
    /\ result.parsed_data.confidence.v > 0

\* the transcript is one of the JSON objects the capability wrote
IsJsonObject == text \in Payloads

\* C14: a transcript goes to the structured field mapper if and only if it
\* parses as a JSON object; a transcript that is no valid JSON, or valid JSON
\* but no object (a number, a string, an array, null, true), goes to the
\* free-text heuristics; one path alone produces the result, and a failure
\* of the structured mapper is not made up for by the free-text path.
C14_Routing ==
    /\ pc = "done" => (Structured(result.parsed_data) <=> IsJsonObject)
    /\ (pc = "failed" /\ text # <<>>) => IsJsonObject

\* a transcript that is valid JSON, a number, took the free-text path
C14_Witness ==
    /\ FreeTextDone
    /\ text = T_Number
    /\ JsonLoads(text).ok
    /\ result.parsed_data.amount # NoneV

\* the transaction member of the payload the transcript holds
PayloadTransaction == DictGet(JsonLoads(text).val, K_transaction, JObj(<<>>))

\* the member of the payload's transaction under key, null when absent
Supplied(key) == DictGet(PayloadTransaction, key, JNull)

\* j is a whole number written without sign and fraction
IsWhole(j) == j.t = "num" /\ ~j.v.neg /\ j.v.f = <<>>

\* C15: on the structured path the amount is transaction.total, and
\* transaction.subtotal when total is absent or null: a whole number there
\* is the amount of the result, total = null with subtotal = 30000 gives
\* 30000, and with neither the amount is None.
C15_SubtotalFallback ==
    StructuredDone =>
        LET from == IF Supplied(K_total).t = "null" THEN Supplied(K_subtotal)
                    ELSE Supplied(K_total)
        IN  /\ IsWhole(from) => result.parsed_data.amount = Some(Dec(from.v.u))
            /\ from.t = "null" => result.parsed_data.amount = NoneV

\* total = null and subtotal = 30000 gave the amount 30000
C15_Witness ==
    /\ StructuredDone
    /\ HasKey(PayloadTransaction, K_total)
    /\ Supplied(K_total).t = "null"
    /\ Supplied(K_subtotal) = JInt(30000)
    /\ result.parsed_data.amount = Some(Dec(30000))

\* the amount the payload supplies is a string that is no numeral
Inconvertible(j) ==
    j.t = "str" /\ \E k \in 1..Len(j.v) : j.v[k] \notin Digits \cup {".", ",", " "}

\* C16: on the structured path, when the amount of the payload cannot be
\* converted to a decimal, the request does not fail, the other fields are
\* returned and the amount field of the result is (None, 0.0).
C16_ConversionFailure ==
    (StructuredDone /\ Inconvertible(Supplied(K_total))) =>
        /\ result.parsed_data.transaction_date = OptionalOf(Supplied(K_date))
        /\ result.parsed_data.amount = NoneV
        /\ result.parsed_data.amount_confidence.t = "number"
        /\ result.parsed_data.amount_confidence.v = 0

\* the field (value, confidence) of a result is what the extractor found
Keeps(value, conf, found) == value = found.value /\ conf = PyNum(found.conf)

\* C17: every transcript handled by the free-text path gets a result, never
\* an exception; the result holds the four fields and a number as overall
\* confidence; a field for which nothing was found, or whose numeral does
\* not convert, is (None, 0.0), and each field holds what its extractor
\* found whatever happened to the others.
C17_FreeTextNeverFails ==
    (pc \in {"done", "failed"} /\ text # <<>> /\ ~IsJsonObject) =>
        /\ FreeTextDone
        /\ LET d == result.parsed_data
           IN  /\ {"amount", "transaction_date", "vendor", "category_suggested",
                    "confidence"} \subseteq DOMAIN d
               /\ d.confidence.t = "number"
               /\ FieldOk(d.amount, d.amount_confidence)
               /\ FieldOk(d.transaction_date, d.date_confidence)
               /\ FieldOk(d.vendor, d.vendor_confidence)
               /\ FieldOk(d.category_suggested, d.category_confidence)
               /\ Keeps(d.amount, d.amount_confidence, ExtractAmount(text))
               /\ Keeps(d.transaction_date, d.date_confidence, ExtractDate(text))
               /\ Keeps(d.vendor, d.vendor_confidence, ExtractVendor(text))

\* the numeral after "Total:" did not convert: the amount is (None, 0.0),
\* the date and the vendor are returned
C17_Witness ==
    /\ FreeTextDone
    /\ text = T_Commas
    /\ result.parsed_data.amount = NoneV
    /\ result.parsed_data.amount_confidence = PyNum(0)
    /\ result.parsed_data.transaction_date # NoneV
    /\ result.parsed_data.vendor # NoneV

\* the cause of the failure of the request, "other" when it is none of the
\* five the gate and the vision call know
FailureCause ==
    IF image.size > MaxImageSize THEN "oversize"
    ELSE IF ~image.decodable THEN "undecodable"
    ELSE IF doc.outcome = "request_error" THEN "transport"
    ELSE IF doc.outcome = "bad_status" THEN "status"
    ELSE IF doc.outcome = "content" /\ Strip(doc.content) = <<>> THEN "empty"
    ELSE "other"

\* the error code the service raises at the place that detects each cause
OwnCode ==
    [oversize    |-> "IMAGE_SIZE_ERROR",
     undecodable |-> "INVALID_IMAGE_ERROR",
     transport   |-> "OCR_CONNECTION_ERROR",
     status      |-> "OCR_SERVICE_ERROR",
     empty       |-> "NO_TEXT_EXTRACTED"]

\* C18: each failure cause reaches the caller of process_receipt_image with
\* its own error code: an oversize image, an undecodable image, a transport
\* failure, a non-success response and an empty transcript each with the
\* code of their own, no two causes with the same code.
C18_OwnErrorKind ==
    (pc = "failed" /\ FailureCause # "other") => error.code = OwnCode[FailureCause]

\* the request to the vision capability did not give a transcript
VisionFailed ==
    \/ doc.outcome \in {"request_error", "bad_status", "malformed"}
    \/ doc.outcome = "content" /\ Strip(doc.content) = <<>>

\* C20: one call of process_receipt_image sends at most one request to the
\* vision capability, whatever its outcome (success, transport failure,
\* non-success status, empty transcript); a failed request is not sent
\* again and ends the extraction with an error and without result.
C20_SingleAttempt ==
    /\ calls <= 1
    /\ calls = 1 <=> doc # NoResponse
    /\ VisionFailed =>
          /\ pc = "failed"
          /\ error.code = "OCR_PROCESSING_ERROR"
          /\ result = NoResult

\* a transport failure ended the request after its single attempt
C20_Witness ==
    /\ doc.outcome = "request_error"
    /\ calls = 1
    /\ pc = "failed"
    /\ error.wraps = <<"OCR_CONNECTION_ERROR">>
    /\ result = NoResult

\* the codes OCRService gives to an OcrProcessingError
OcrProcessingErrorCodes ==
    {"OCR_PROCESSING_ERROR", "IMAGE_SIZE_ERROR", "INVALID_IMAGE_ERROR", "OCR_SERVICE_ERROR",
     "NO_TEXT_EXTRACTED", "OCR_CONNECTION_ERROR", "OCR_UNKNOWN_ERROR"}

\* C21: every failing call of process_receipt_image ends by raising an
\* OcrProcessingError: an exception of another type raised by the image
\* validation, the vision call or the parsing of the transcript reaches the
\* caller only wrapped in one.
C21_OnlyOcrProcessingError ==
    pc = "failed" =>
        /\ error.code \in OcrProcessingErrorCodes
        /\ error.wraps # <<>>
        /\ result = NoResult

\* an AttributeError of the structured mapper reached the caller wrapped
C21_Witness ==
    /\ pc = "failed"
    /\ error.code = "OCR_PROCESSING_ERROR"
    /\ error.wraps = <<"AttributeError">>

\* the transcript is a single line of plain words: letters and blanks only
PlainWords(s) ==
    /\ s # <<>>
    /\ \A k \in 1..Len(s) :
          s[k] = " " \/ \E n \in 1..Len(LowerSeq) : LowerSeq[n] = LowerCh(s[k])
    /\ \E k \in 1..Len(s) : s[k] # " "

\* no keyword of any category is written in the transcript
NoCategoryKeyword(s) ==
    \A k \in 1..Len(CategoryKeywords) : KeywordsIn(k, Lower(s)) = 0

\* C24: for a transcript that carries no recognisable receipt information (a
\* single line of plain words with no amount, no date and no category
\* keyword), free-text parsing returns amount, transaction date, vendor and
\* suggested category all None and an overall confidence below 0.5.
C24_NoInformation ==
    (pc = "done" /\ PlainWords(text) /\ NoCategoryKeyword(text)) =>
        LET d == result.parsed_data
        IN  /\ ~Structured(d)
            /\ d.amount = NoneV
            /\ d.transaction_date = NoneV
            /\ d.vendor = NoneV
            /\ d.category_suggested = NoneV
            /\ d.confidence.v < 500

\* C26: when a structured payload does not supply confidence.overall at all,
\* the overall confidence of the result is the weighted formula applied to
\* the per-field confidences, as when confidence.overall is supplied as 0.
C26_AbsentOverallWeighted ==
    (StructuredDone /\ ~OverallSupplied) => OverallIsWeighted(result.parsed_data)

\* C27: for every transcript that parses as a JSON object, objects whose
\* transaction, merchant, confidence or extracted_text member is null, missing
\* or of an unexpected type included, extraction completes with a result
\* instead of failing the whole request.
C27_JsonObjectCompletes ==
    (IsJsonObject /\ pc \in {"done", "failed"}) =>
        /\ pc = "done"
        /\ error = NoError
        /\ Structured(result.parsed_data)

(***************************************************************************)
(* Claims about requests one after another (checked under SpecSession)     *)
(***************************************************************************)
\* two calls were given the same image, the same expected type and
\* classification and the same output of the vision capability
SameInputs(a, b) == a.image = b.image /\ a.args = b.args /\ a.doc = b.doc

\* C25: extraction is deterministic and keeps no state between requests: two
\* calls with identical image bytes, identical expected type and
\* classification and identical vision output return identical results,
\* whatever other calls were made before or in between.
C25_Deterministic ==
    \A i, j \in 1..Len(history) :
        SameInputs(history[i], history[j]) =>
            /\ history[i].error = history[j].error
            /\ history[i].result = history[j].result

\* a call has returned a result, another call with another transcript has
\* followed, and a third call was given the inputs of the first
C25_Witness ==
    /\ Len(history) = 3
    /\ SameInputs(history[1], history[3])
    /\ history[1].error = NoError
    /\ history[2].error = NoError
    /\ history[2].doc # history[1].doc
    /\ history[3].result = history[1].result

(***************************************************************************)
(* Claims about the endpoints (checked under SpecUpload)                   *)
(***************************************************************************)
\* the declared content type is one of the allowed formats
AllowedType == upload.content_type # NoneV /\ upload.content_type[1] \in OCR_ALLOWED_FORMATS

\* the form fields and the size of the upload give no other reason to refuse it
OtherwiseValid ==
    /\ args.transaction_type \in {"income", "expense"}
    /\ args.classification \in {"personal", "business"}
    /\ image.size <= MaxImageSize

\* C19: an upload whose declared content type is not one of the allowed
\* formats (JPEG, PNG, WEBP), any other image/* type and a missing content
\* type included, is rejected with the unsupported-format error and the
\* vision capability is not called for it.
C19_UnsupportedFormatRejected ==
    (~AllowedType /\ OtherwiseValid) =>
        /\ calls = 0
        /\ pc \in {"upload", "rejected"}
        /\ pc = "rejected" => error.code = "INVALID_FILE_TYPE"

\* the endpoint has created a transaction from the extraction
Created == pc = "created" /\ db.transactions # <<>>

InsufficientData ==
    \/ result.parsed_data.amount = NoneV
    \/ ~IsNumeric(result.parsed_data.amount_confidence)
    \/ NumericValue(result.parsed_data.amount_confidence) < OCR_MIN_CONFIDENCE

Taken(k) ==
    LET c == doc.items[k].client_id
    IN  /\ c # ""
        /\ \/ Existing(doc.before, doc.user_id, c) # {}
           \/ \E j \in 1..(k - 1) :
                 doc.items[j].client_id = c /\ result.results[j].status = "created"

\* C29: sync_transactions deduplicates by client_id: for one user at most one
\* transaction exists for each non-empty client_id; an item whose client_id
\* already exists for that user is reported as "duplicate" with the existing
\* server_id and creates nothing, and an item that fails validation is
\* reported as "error" without stopping the remaining items of the batch.
C29_SyncDedup ==
    /\ \A i, j \in 1..Len(db.transactions) :
          LET a == db.transactions[i]
              b == db.transactions[j]
          IN  (i # j /\ a.user_id = b.user_id /\ a.client_id # "")
                  => a.client_id # b.client_id
    /\ pc # "raised"
    /\ pc = "synced" =>
          /\ Len(result.results) = Len(doc.items)
          /\ \A k \in 1..Len(doc.items) :
                LET r == result.results[k]
                IN  /\ Taken(k) =>
                          /\ r.status = "duplicate"
                          /\ \E n \in 1..Len(db.transactions) :
                                /\ db.transactions[n].id = r.server_id
                                /\ db.transactions[n].user_id = doc.user_id
                                /\ db.transactions[n].client_id = doc.items[k].client_id
                    /\ (~Taken(k) /\ ValidatePayload(doc.items[k]) # "") => r.status = "error"
          /\ Len(db.transactions) - Len(doc.before)
                = Cardinality({k \in 1..Len(doc.items) : result.results[k].status = "created"})

(***************************************************************************)
(* Claims about the bank accounts (checked under SpecAccounts)             *)
(***************************************************************************)
\* no user owns two accounts of one name
NoTwoSameName ==
    \A a, b \in db.bank_accounts :
        (a.id # b.id /\ a.user_id = b.user_id) => a.name # b.name

\* another account of the user of the call of p has the name of the call
Collides(p) ==
    \E r \in db.bank_accounts :
        /\ r.id # args[p].account_id
        /\ r.user_id = args[p].user_id
        /\ r.name = args[p].name

\* the call of p checks or writes a name: the name of a create, or of an
\* update whose name is not the name of the account as the call loaded it
NameStep(p) ==
    /\ pc[p] \in {"create_check", "create_commit", "update_check", "update_commit"}
    /\ pc'[p] # pc[p]
    /\ pc[p] = "update_commit" =>
          (args[p].name # "" /\ args[p].name # args[p].account_name)

\* C30: after any sequence and any interleaving of create_account,
\* update_account and delete_account calls no user owns two bank accounts
\* with the same name: a create, or a rename to a different name, that
\* collides with another account of the same user is rejected (the call
\* ends with an error) and leaves the stored accounts unchanged.
C30_UniqueNames ==
    /\ []NoTwoSameName
    /\ [][\A p \in Procs :
             (NameStep(p) /\ Collides(p)) =>
                 /\ db' = db
                 /\ pc'[p] = "idle"
                 /\ error'[p] \notin {"", "ok"}]_vars

\* two creates of one name for one user both passed the check, the first
\* was stored and the second was refused by the table
C30_Witness ==
    \E p \in Procs :
        /\ pc[p] = "idle"
        /\ args[p].op = "create"
        /\ error[p] = "IntegrityError"
        /\ Collides(p)
        /\ ~ \E r \in db.bank_accounts : r.id = args[p].account_id

====
